---- MODULE Spec2Model ----
(***************************************************************************)
(* Model of the website mirroring tool (package downloader, client.go):    *)
(* the crawl engine (Job: NewJob, Run, discoverCommonFiles, worker,        *)
(* processURL, parseAndQueueLinks, saveState, loadState) and the fetcher   *)
(* (Downloader.Download); the URL filter, NormalizeURL, the in-crawl link   *)
(* rewriter with the path mapper, and the post-processor's file queue,     *)
(* each in a specification of its own.                                     *)
(*                                                                         *)
(* The crawl runs against a small fixed site.  Goroutines are interleaved  *)
(* at the points where they touch shared state: the frontier channel       *)
(* j.pending, the mutex-protected maps j.visited / j.depths, the           *)
(* WaitGroup j.activeWG, the job context and the event channel.            *)
(***************************************************************************)
EXTENDS Integers, Sequences, FiniteSets, TLC

VARIABLES
    mode,         \* how the job was launched: "app", "cli" (NewJob) or "resume" (resumeCmd)
    cfgWorkers,   \* Config.Workers
    cfgMaxDepth,  \* Config.MaxDepth
    stateFile,    \* contents of <outputDir>/<id>.state.json, or NoFile
    runpc,        \* position of the goroutine that executes NewJob / Run
    discIdx,      \* loop index of discoverCommonFiles
    pending,      \* buffer of the channel j.pending (the frontier)
    closed,       \* whether j.pending has been closed
    visited,      \* j.visited (keys mapped to true)
    depths,       \* j.depths
    activeWG,     \* counter of j.activeWG (outstanding work)
    stats,        \* j.stats: TotalFiles, Failed, Skipped
    ctxDone,      \* j.ctx has been cancelled
    sigchan,      \* number of signals buffered in j.shutdownChan
    events,       \* number of messages buffered in j.Events
    wpc,          \* position of each worker goroutine
    wurl,         \* urlStr of the worker
    wdepth,       \* depth read by processURL
    wlinks,       \* links the worker still has to go through in parseAndQueueLinks
    drained,      \* local slice pendingURLs of saveState
    saved,        \* saveState has written the state file in this run
    resumedFrom,  \* the snapshot loadState restored, or NoFile
    enq,          \* history: number of sends of each URL into j.pending
    deq,          \* history: number of receives of each URL by workers
    fetches,      \* history: number of Downloader.Download calls per URL
    okURLs,       \* history: the URLs downloaded and saved successfully
    dl,           \* one execution of Downloader.Download (specification SpecDL)
    fn,           \* one call of a function on URLs and paths: its arguments and result
    pp,           \* the post-processor: its files, queue, workers and in-progress set
    job2,         \* the Job of the second downloader variant: its fields and goroutines
    app           \* the App of app.go: activeJobs, the calls in progress, the server

vars == <<mode, cfgWorkers, cfgMaxDepth, stateFile, runpc, discIdx, pending, closed,
          visited, depths, activeWG, stats, ctxDone, sigchan, events, wpc, wurl,
          wdepth, wlinks, drained, saved, resumedFrom, enq, deq, fetches, okURLs, dl, fn, pp, job2, app>>

jobvars == <<mode, cfgWorkers, cfgMaxDepth, stateFile, runpc, discIdx, pending, closed,
             visited, depths, activeWG, stats, ctxDone, sigchan, events, wpc, wurl,
             wdepth, wlinks, drained, saved, resumedFrom, enq, deq, fetches, okURLs>>

----------------------------------------------------------------------------
(* Bounds of the model *)

MaxCalls == 2        \* concurrent calls of one method of the App
MaxWorkers == 2      \* Config.Workers ranges over 1..MaxWorkers
DepthLimit == 2      \* Config.MaxDepth ranges over -1..DepthLimit
NumCommon == 2       \* how many entries of commonPaths the model keeps
EventsCap == 1       \* capacity of j.Events (100 in NewJob), scaled down
SpinCap == 2         \* saveState's slice is not tracked beyond this length
MaxRetries == 3      \* Downloader.retries ranges over 0..MaxRetries
MaxFileSize == 1     \* Downloader.maxSize (bytes), scaled down
MaxDirs == 2         \* directories in the path of a URL given to a function on URLs
MaxPPWorkers == 2    \* PostProcessorConfig.Workers ranges over 1..MaxPPWorkers
MaxFiles == 3        \* files in the post-processor's input directory

(* Program constants *)
DefaultRetries == 3

----------------------------------------------------------------------------
(* The site being mirrored *)

RootURL == "https://ex.com/"
PageA == "https://ex.com/a"
PageB == "https://ex.com/b"
RootFrag == "https://ex.com/#top"
External == "https://other.com/x"
NotFoundURL == "https://ex.com/404"

commonPaths ==
    LET
        AllCommonURLs ==
            << "https://ex.com/404", "https://ex.com/404.html", "https://ex.com/robots.txt",
               "https://ex.com/sitemap.xml", "https://ex.com/favicon.ico",
               "https://ex.com/apple-touch-icon.png", "https://ex.com/manifest.json" >>
    IN
        SubSeq(AllCommonURLs, 1, NumCommon)

Range(s) == {s[i] : i \in 1..Len(s)}

URLs == {RootURL, PageA, PageB, External} \cup Range(commonPaths)


\* capacity of j.pending: make(chan string, 5000); scaled down so that the
\* seeds of NewJob, discoverCommonFiles and Run still fit, as they do in 5000
PendingCap == NumCommon + 2

\* raw links the parsers return for a successfully fetched document
Links(u) ==
    CASE u = RootURL -> <<PageA, NotFoundURL, External>>
      [] u = PageA -> <<RootFrag, PageB>>
      [] u = PageB -> <<PageA>>
      [] OTHER -> <<>>

Host(u) == IF u = External THEN "other.com" ELSE "ex.com"

\* NormalizeURL on the links of the site: the fragment is dropped
NormalizeURL(u) == IF u = RootFrag THEN RootURL ELSE u

\* DefaultURLFilter.ShouldDownload with domain ex.com and basePath "/":
\* every path of the host begins with the base path
ShouldDownload(u) == Host(u) = "ex.com"

----------------------------------------------------------------------------
(* Downloader.Download *)

\* what the server (or the transport) answers to one attempt:
\*   reqerr   http.NewRequestWithContext fails
\*   neterr   d.client.Do fails (transport error, cancelled context)
\*   http     a response with a status and a body of len bytes
\*   readerr  a 200 response whose body cannot be read
Responses ==
    {[kind |-> k, status |-> 0, len |-> 0] : k \in {"reqerr", "neterr"}}
        \cup {[kind |-> "http", status |-> s, len |-> 0] : s \in {404, 500}}
        \cup {[kind |-> "http", status |-> 200, len |-> n] : n \in 0..(MaxFileSize + 2)}
        \cup {[kind |-> "readerr", status |-> 200, len |-> 0]}

NetErr == [kind |-> "neterr", status |-> 0, len |-> 0]

\* the error branches ask "attempt == d.retries" before they sleep and continue
LastAttempt(attempt, retries) == attempt = retries

\* io.ReadAll(io.LimitReader(resp.Body, d.maxSize+1)): the number of bytes
\* read from a body of bodyLen bytes
LimitRead(bodyLen, maxSize) == IF bodyLen > maxSize + 1 THEN maxSize + 1 ELSE bodyLen

\* a loop body that rejects a body of exactly maxSize bytes
Attempt_LimitInclusive(r, attempt, retries, maxSize) ==
    IF r.kind = "reqerr" THEN "reqerr"
    ELSE IF r.kind = "neterr"
         THEN IF LastAttempt(attempt, retries) THEN "ErrDownloadFailed" ELSE "retry"
    ELSE IF r.status # 200
         THEN IF r.status = 404 THEN "notfound"
              ELSE IF LastAttempt(attempt, retries) THEN "status" ELSE "retry"
    ELSE IF r.kind = "readerr" THEN "readerr"
    ELSE IF LimitRead(r.len, maxSize) >= maxSize THEN "toolarge"
    ELSE "ok"

\* a loop body that treats a 404 like every other status that is not 200
Attempt_Retry404(r, attempt, retries, maxSize) ==
    IF r.kind = "reqerr" THEN "reqerr"
    ELSE IF r.kind = "neterr"
         THEN IF LastAttempt(attempt, retries) THEN "ErrDownloadFailed" ELSE "retry"
    ELSE IF r.status # 200
         THEN IF LastAttempt(attempt, retries) THEN "status" ELSE "retry"
    ELSE IF r.kind = "readerr" THEN "readerr"
    ELSE IF LimitRead(r.len, maxSize) > maxSize THEN "toolarge"
    ELSE "ok"

\* one iteration of the loop of Download: "retry" stands for sleep-and-continue,
\* everything else is what Download returns ("ok", or the error)
Attempt(r, attempt, retries, maxSize) ==
    IF r.kind = "reqerr" THEN "reqerr"
    ELSE IF r.kind = "neterr"
         THEN IF LastAttempt(attempt, retries) THEN "ErrDownloadFailed" ELSE "retry"
    ELSE IF r.status # 200
         THEN IF r.status = 404 THEN "notfound"
              ELSE IF LastAttempt(attempt, retries) THEN "status" ELSE "retry"
    ELSE IF r.kind = "readerr" THEN "readerr"
    ELSE IF LimitRead(r.len, maxSize) > maxSize THEN "toolarge"
    ELSE "ok"

\* the loop condition: attempt <= d.retries
LoopCond(attempt, retries) == attempt <= retries

RECURSIVE DownloadFrom(_, _, _, _)
DownloadFrom(attempt, retries, maxSize, resps) ==
    IF ~LoopCond(attempt, retries) THEN "ErrDownloadFailed"
    ELSE LET o == Attempt(resps[attempt], attempt, retries, maxSize)
         IN  IF o = "retry" THEN DownloadFrom(attempt + 1, retries, maxSize, resps)
             ELSE o

\* Download(ctx, u) against a server that answers resps[i] to attempt i
Download(retries, maxSize, resps) == DownloadFrom(1, retries, maxSize, resps)

\* what the server answers for the common files: they exist, except /404
Answer(u) ==
    IF u = NotFoundURL THEN [kind |-> "http", status |-> 404, len |-> 0]
    ELSE [kind |-> "http", status |-> 200, len |-> MaxFileSize]

\* the pages are served by an unreliable backend: any answer to any attempt,
\* and a file that SaveFileV2 may fail to write
Flaky == {RootURL, PageA, PageB}

\* the results Download can have for a flaky URL, with Config.Retries = DefaultRetries
FlakyOutcomes ==
    {Download(DefaultRetries, MaxFileSize, rs) : rs \in [1..DefaultRetries -> Responses]}

\* the results Download can have in the crawl
LiveOutcomes(u) ==
    IF u \in Flaky THEN FlakyOutcomes
    ELSE {Download(DefaultRetries, MaxFileSize, [i \in 1..DefaultRetries |-> Answer(u)])}

\* with the job context cancelled every d.client.Do fails
CancelledOutcomes ==
    {Download(DefaultRetries, MaxFileSize, [i \in 1..DefaultRetries |-> NetErr])}

DownloadOutcomes(u, cancelled) == IF cancelled THEN CancelledOutcomes ELSE LiveOutcomes(u)

\* SaveFileV2: whether os.MkdirAll and os.WriteFile succeed
SaveResults(u) == IF u \in Flaky THEN BOOLEAN ELSE {TRUE}

\* the state of one execution of Download before its loop
DLStart(retries, resps) ==
    [retries |-> retries, resps |-> resps, attempt |-> 1, http |-> 0,
     seen |-> <<>>, read |-> <<>>, result |-> "running"]

DLIdle == DLStart(0, <<>>)

\* one iteration of the loop, or the return after the loop
DownloadStep ==
    LET
        \* whether the body of the loop sends an HTTP request for this response
        SendsRequest(r) == r.kind # "reqerr"
    IN
        /\ dl.result = "running"
        /\ IF ~LoopCond(dl.attempt, dl.retries)
           THEN dl' = [dl EXCEPT !.result = "ErrDownloadFailed"]
           ELSE LET r == dl.resps[dl.attempt]
                    o == Attempt(r, dl.attempt, dl.retries, MaxFileSize)
                IN  dl' = [dl EXCEPT !.http = @ + (IF SendsRequest(r) THEN 1 ELSE 0),
                                     !.seen = Append(@, r),
                                     !.read = Append(@, IF r.kind = "http" /\ r.status = 200
                                                        THEN LimitRead(r.len, MaxFileSize)
                                                        ELSE 0),
                                     !.attempt = IF o = "retry" THEN @ + 1 ELSE @,
                                     !.result = IF o = "retry" THEN "running" ELSE o]
        /\ UNCHANGED <<jobvars, fn, pp, job2, app>>

----------------------------------------------------------------------------
(* Strings, paths and URLs.  A string is a sequence of symbols: "/", ".",
   ":", "?", "#" stand for themselves, every other symbol ("blog", "index",
   "html", "ex.com") is a run of characters without any of those five. *)

\* strings.HasPrefix
HasPrefix(s, p) == Len(p) <= Len(s) /\ SubSeq(s, 1, Len(p)) = p

\* strings.HasSuffix
HasSuffix(s, x) == Len(x) <= Len(s) /\ SubSeq(s, Len(s) - Len(x) + 1, Len(s)) = x

\* strings.TrimSuffix
TrimSuffix(s, x) == IF HasSuffix(s, x) THEN SubSeq(s, 1, Len(s) - Len(x)) ELSE s

\* strings.TrimPrefix
TrimPrefix(s, p) == IF HasPrefix(s, p) THEN SubSeq(s, Len(p) + 1, Len(s)) ELSE s

\* strings.Contains(s, c) for a one-symbol c
Contains(s, c) == \E i \in 1..Len(s) : s[i] = c

\* strings.Index for a one-symbol c, counted from 1; 0 when c does not occur
Index(s, c) == IF Contains(s, c) THEN CHOOSE i \in 1..Len(s) : s[i] = c /\ \A k \in 1..(i-1) : s[k] # c ELSE 0

\* strings.LastIndex for a one-symbol c, counted from 1; 0 when c does not occur
LastIndex(s, c) == IF Contains(s, c) THEN CHOOSE i \in 1..Len(s) : s[i] = c /\ \A k \in (i+1)..Len(s) : s[k] # c ELSE 0

\* strings.ToLower
ToLower(s) ==
    LET
        \* the lower-case form of one symbol
        LowerSym(c) ==
            CASE c = "INDEX" -> "index"
              [] c = "HTML" -> "html"
              [] c = "PHP" -> "php"
              [] c = "JS" -> "js"
              [] OTHER -> c
    IN
        IF s = <<>> THEN <<>> ELSE [i \in 1..Len(s) |-> LowerSym(s[i])]

\* url.URL as url.Parse fills it for the URLs of the model
\* (no userinfo, no opaque part, nothing that needs escaping)
ParseURL(u) ==
    LET h == Index(u, "#")
        noFrag == IF h = 0 THEN u ELSE SubSeq(u, 1, h - 1)
        frag == IF h = 0 THEN <<>> ELSE SubSeq(u, h + 1, Len(u))
        q == Index(noFrag, "?")
        rest == IF q = 0 THEN noFrag ELSE SubSeq(noFrag, 1, q - 1)
        query == IF q = 0 THEN <<>> ELSE SubSeq(noFrag, q + 1, Len(noFrag))
        hasScheme == Len(rest) >= 2 /\ rest[2] = ":" /\ rest[1] \notin {"/", "."}
        afterScheme == IF hasScheme THEN SubSeq(rest, 3, Len(rest)) ELSE rest
        hasAuthority == HasPrefix(afterScheme, <<"/", "/">>)
        afterSlashes == SubSeq(afterScheme, 3, Len(afterScheme))
        hostLen == IF Contains(afterSlashes, "/") THEN Index(afterSlashes, "/") - 1
                   ELSE Len(afterSlashes)
    IN  [Scheme |-> IF hasScheme THEN <<rest[1]>> ELSE <<>>,
         Host |-> IF hasAuthority THEN SubSeq(afterSlashes, 1, hostLen) ELSE <<>>,
         Path |-> IF hasAuthority THEN SubSeq(afterSlashes, hostLen + 1, Len(afterSlashes))
                  ELSE afterScheme,
         ForceQuery |-> q # 0 /\ query = <<>>,
         RawQuery |-> query,
         Fragment |-> frag]

\* url.URL.String
URLString(pu) ==
    (IF pu.Scheme # <<>> THEN pu.Scheme \o <<":">> ELSE <<>>)
    \o (IF (pu.Scheme # <<>> \/ pu.Host # <<>>) /\ (pu.Host # <<>> \/ pu.Path # <<>>)
        THEN <<"/", "/">> ELSE <<>>)
    \o pu.Host
    \o (IF pu.Path # <<>> /\ pu.Path[1] # "/" /\ pu.Host # <<>> THEN <<"/">> ELSE <<>>)
    \o (IF pu.Scheme = <<>> /\ pu.Host = <<>> /\ Contains(pu.Path, ":")
           /\ ~Contains(SubSeq(pu.Path, 1, Index(pu.Path, ":")), "/")
        THEN <<".", "/">> ELSE <<>>)
    \o pu.Path
    \o (IF pu.ForceQuery \/ pu.RawQuery # <<>> THEN <<"?">> \o pu.RawQuery ELSE <<>>)
    \o (IF pu.Fragment # <<>> THEN <<"#">> \o pu.Fragment ELSE <<>>)

\* p without its trailing slashes
RECURSIVE StripSlashes(_)
StripSlashes(p) ==
    IF p # <<>> /\ p[Len(p)] = "/" THEN StripSlashes(SubSeq(p, 1, Len(p) - 1)) ELSE p

\* filepath.Base / path.Base
Base(p) ==
    IF p = <<>> THEN <<".">>
    ELSE LET q == StripSlashes(p)
         IN  IF q = <<>> THEN <<"/">> ELSE SubSeq(q, LastIndex(q, "/") + 1, Len(q))

\* strings.Contains(s, sub)
ContainsSub(s, sub) == \E i \in 1..(Len(s) - Len(sub) + 1) : SubSeq(s, i, i + Len(sub) - 1) = sub

\* strings.Split(p, "/")
RECURSIVE SplitPath(_)
SplitPath(p) ==
    IF ~Contains(p, "/") THEN <<p>>
    ELSE <<SubSeq(p, 1, Index(p, "/") - 1)>> \o SplitPath(SubSeq(p, Index(p, "/") + 1, Len(p)))

\* strings.Join(elems, "/")
RECURSIVE JoinSegs(_)
JoinSegs(elems) ==
    IF elems = <<>> THEN <<>>
    ELSE IF Len(elems) = 1 THEN elems[1]
    ELSE elems[1] \o <<"/">> \o JoinSegs(Tail(elems))

\* path.Clean, element by element: empty and "." elements are dropped, ".."
\* removes the element before it (or is dropped at the root, or kept)
RECURSIVE CleanElems(_, _, _)
CleanElems(elems, out, rooted) ==
    IF elems = <<>> THEN out
    ELSE LET e == Head(elems)
         IN  IF e = <<>> \/ e = <<".">> THEN CleanElems(Tail(elems), out, rooted)
             ELSE IF e = <<".", ".">>
             THEN IF out # <<>> /\ out[Len(out)] # <<".", ".">>
                  THEN CleanElems(Tail(elems), SubSeq(out, 1, Len(out) - 1), rooted)
                  ELSE IF rooted THEN CleanElems(Tail(elems), out, rooted)
                  ELSE CleanElems(Tail(elems), Append(out, e), rooted)
             ELSE CleanElems(Tail(elems), Append(out, e), rooted)

\* path.Clean / filepath.Clean
Clean(p) ==
    IF p = <<>> THEN <<".">>
    ELSE LET rooted == p[1] = "/"
             joined == JoinSegs(CleanElems(SplitPath(p), <<>>, rooted))
         IN  IF rooted THEN <<"/">> \o joined
             ELSE IF joined = <<>> THEN <<".">> ELSE joined

\* path.Join / filepath.Join of two elements
Join(a, b) ==
    IF a = <<>> THEN (IF b = <<>> THEN <<>> ELSE Clean(b))
    ELSE IF b = <<>> THEN Clean(a)
    ELSE Clean(a \o <<"/">> \o b)

\* filepath.Dir
Dir(p) == Clean(SubSeq(p, 1, LastIndex(p, "/")))

\* n elements ".."
RECURSIVE Ups(_)
Ups(n) == IF n <= 0 THEN <<>> ELSE <<<<".", ".">>>> \o Ups(n - 1)

\* filepath.Rel for two relative paths (or two rooted paths)
Rel(basepath, targpath) ==
    LET b == Clean(basepath)
        t == Clean(targpath)
        bs == IF b = <<".">> THEN <<>> ELSE SplitPath(b)
        ts == IF t = <<".">> THEN <<>> ELSE SplitPath(t)
        Common(k) == k <= Len(bs) /\ k <= Len(ts) /\ SubSeq(bs, 1, k) = SubSeq(ts, 1, k)
        k == CHOOSE n \in 0..Len(bs) : Common(n) /\ ~Common(n + 1)
        res == Ups(Len(bs) - k) \o SubSeq(ts, k + 1, Len(ts))
    IN  IF res = <<>> THEN <<".">> ELSE JoinSegs(res)

\* resolvePath of net/url: the elements of the merged path without "." and ".."
RECURSIVE RemoveDots(_, _)
RemoveDots(elems, out) ==
    IF elems = <<>> THEN out
    ELSE LET e == Head(elems)
         IN  IF e = <<".">> THEN RemoveDots(Tail(elems), out)
             ELSE IF e = <<".", ".">>
             THEN RemoveDots(Tail(elems), IF out = <<>> THEN out ELSE SubSeq(out, 1, Len(out) - 1))
             ELSE RemoveDots(Tail(elems), Append(out, e))

\* resolvePath of net/url
resolvePath(base, ref) ==
    LET full == IF ref = <<>> THEN base
                ELSE IF ref[1] # "/" THEN SubSeq(base, 1, LastIndex(base, "/")) \o ref
                ELSE ref
        elems == SplitPath(full)
        dst == JoinSegs(RemoveDots(elems, <<>>))
                 \o (IF elems[Len(elems)] \in {<<".">>, <<".", ".">>} THEN <<"/">> ELSE <<>>)
    IN  IF full = <<>> THEN <<>> ELSE <<"/">> \o TrimPrefix(dst, <<"/">>)

\* url.URL.ResolveReference
ResolveReference(u, ref) ==
    IF ref.Scheme # <<>> THEN [ref EXCEPT !.Path = resolvePath(ref.Path, <<>>)]
    ELSE IF ref.Host # <<>>
    THEN [ref EXCEPT !.Scheme = u.Scheme, !.Path = resolvePath(ref.Path, <<>>)]
    ELSE LET bare == ref.Path = <<>> /\ ~ref.ForceQuery /\ ref.RawQuery = <<>>
         IN  [Scheme |-> u.Scheme,
              Host |-> u.Host,
              Path |-> resolvePath(u.Path, ref.Path),
              ForceQuery |-> ref.ForceQuery,
              RawQuery |-> IF bare THEN u.RawQuery ELSE ref.RawQuery,
              Fragment |-> IF bare /\ ref.Fragment = <<>> THEN u.Fragment ELSE ref.Fragment]

\* the fn variable outside the specifications of single functions
FnIdle == [op |-> "none"]

\* the pp variable outside the specification of the post-processor
PPIdle == [phase |-> "none"]

\* the job2 variable outside the specification of the second variant
Job2Idle == [phase |-> "none"]

\* the app variable outside the specification of the App
AppIdle == [op |-> "none"]

----------------------------------------------------------------------------
(* Job: shared state and helpers *)

Workers == 1..MaxWorkers

MapSet(m, k, v) == [x \in DOMAIN m \cup {k} |-> IF x = k THEN v ELSE m[x]]

\* Go's map read: the zero value for a missing key
GetDepth(m, u) == IF u \in DOMAIN m THEN m[u] ELSE 0

EmptyMap == [x \in {} |-> 0]

\* no state file on disk (ioutil.ReadFile fails in loadState)
NoStats == [TotalFiles |-> 0, Failed |-> 0, Skipped |-> 0]

NoFile == [exists |-> FALSE, PendingURLs |-> <<>>, DepthMap |-> EmptyMap, Stats |-> NoStats]

Count(f, u) == [f EXCEPT ![u] = @ + 1]

\* Job.sendLog: a non-blocking send into j.Events (nil in resumeCmd's Job)
sendLog(ev) == IF mode = "resume" THEN ev ELSE IF ev < EventsCap THEN ev + 1 ELSE ev

\* a depth check that lets one level too many through
DepthExceeded_OffByOne(depth, maxDepth) == depth > maxDepth + 1

\* processURL: "if depth > j.Config.MaxDepth" (skip without fetching)
DepthExceeded(depth, maxDepth) == depth > maxDepth

\* processURL: "if depth < j.Config.MaxDepth" (parse and queue the links)
MayDescend(depth, maxDepth) == depth < maxDepth

JobInit ==
    LET
        SnapshotInputs ==
            LET
                \* state files a resumed job can find: snapshots of a crawl of this site as
                \* JobState lays them out (PendingURLs, DepthMap, Stats), one taken when the
                \* root and the common files had been handled and PageA was waiting, one
                \* taken when PageA had been handled too and PageB was waiting
                SiteDepths(known) ==
                    [u \in known |-> IF u = PageA THEN 1 ELSE IF u = PageB THEN 2 ELSE 0]
            IN
                { [exists |-> TRUE, PendingURLs |-> <<PageA>>,
                   DepthMap |-> SiteDepths({RootURL, PageA} \cup Range(commonPaths)),
                   Stats |-> [NoStats EXCEPT !.TotalFiles = NumCommon + 1, !.Failed = 2]],
                  [exists |-> TRUE, PendingURLs |-> <<PageB>>,
                   DepthMap |-> SiteDepths({RootURL, PageA, PageB} \cup Range(commonPaths)),
                   Stats |-> [NoStats EXCEPT !.TotalFiles = NumCommon + 2, !.Failed = 2]] }
    IN
        /\ mode \in {"app", "cli", "resume"}
        /\ cfgWorkers \in 1..MaxWorkers
        /\ cfgMaxDepth \in (-1)..DepthLimit
        /\ stateFile \in {NoFile} \cup (IF cfgMaxDepth >= 1 THEN SnapshotInputs ELSE {})
        /\ mode = "resume" => stateFile.exists
        /\ runpc = "start"
        /\ discIdx = 1
        /\ pending = <<>>
        /\ closed = FALSE
        /\ visited = {}
        /\ depths = EmptyMap
        /\ activeWG = 0
        /\ stats = NoStats
        /\ ctxDone = FALSE
        /\ sigchan = 0
        /\ events = 0
        /\ wpc = [w \in Workers |-> "unborn"]
        /\ wurl = [w \in Workers |-> ""]
        /\ wdepth = [w \in Workers |-> 0]
        /\ wlinks = [w \in Workers |-> <<>>]
        /\ drained = <<>>
        /\ saved = FALSE
        /\ resumedFrom = NoFile
        /\ enq = [u \in URLs |-> 0]
        /\ deq = [u \in URLs |-> 0]
        /\ fetches = [u \in URLs |-> 0]
        /\ okURLs = {}

Init == JobInit /\ dl = DLIdle /\ fn = FnIdle /\ pp = PPIdle /\ job2 = Job2Idle /\ app = AppIdle

\* the job's variables in the specifications of single functions: a job that
\* has been configured and not started
JobAtRest ==
    /\ JobInit
    /\ mode = "cli" /\ cfgWorkers = 1 /\ cfgMaxDepth = 0 /\ stateFile = NoFile

wvars == <<wpc, wurl, wdepth, wlinks>>
hist == <<enq, deq, fetches, okURLs>>
cfgvars == <<mode, cfgWorkers, cfgMaxDepth>>

----------------------------------------------------------------------------
(* NewJob, resumeCmd, loadState *)

\* a loadState that refills the frontier without j.activeWG.Add(1)
loadStateWG_NoAdd(wg, pendingURLs) == wg

\* loadState: the counter after "j.pending <- url; j.activeWG.Add(1)" for
\* every restored URL
loadStateWG(wg, pendingURLs) == wg + Len(pendingURLs)

\* loadState: the Job as restored from the state file.  The source refills the
\* frontier with "j.pending <- url" followed by "j.activeWG.Add(1)" per URL;
\* it runs inside NewJob / resumeCmd, before Run and before any other
\* goroutine of the job exists, and is one step here.
loadState ==
    LET
        \* loadState: j.visited[url] = true for every key of the depth map
        loadStateVisited(depthMap) == DOMAIN depthMap
    IN
        /\ stats' = stateFile.Stats
        /\ depths' = stateFile.DepthMap
        /\ visited' = loadStateVisited(stateFile.DepthMap)
        /\ pending' = stateFile.PendingURLs
        /\ activeWG' = loadStateWG(activeWG, stateFile.PendingURLs)
        /\ resumedFrom' = stateFile
        /\ enq' = [u \in URLs |->
                     enq[u] + Cardinality({i \in 1..Len(stateFile.PendingURLs) :
                                              stateFile.PendingURLs[i] = u})]

\* NewJob: resume from the state file when it loads, else seed the root
NewJob ==
    /\ runpc = "start"
    /\ mode \in {"app", "cli"}
    /\ app.op # "none" =>   \* in the App: DownloadSite has called NewJob
           (app.op = "download" /\ \E c \in DOMAIN app.pc : app.pc[c] = "running")
    /\ IF stateFile.exists
       THEN loadState
       ELSE /\ activeWG' = activeWG + 1
            /\ pending' = Append(pending, NormalizeURL(RootURL))
            /\ depths' = MapSet(depths, NormalizeURL(RootURL), 0)
            /\ visited' = visited \cup {NormalizeURL(RootURL)}
            /\ enq' = Count(enq, NormalizeURL(RootURL))
            /\ UNCHANGED <<resumedFrom, stats>>
    /\ runpc' = "run"
    /\ UNCHANGED <<cfgvars, stateFile, discIdx, closed, ctxDone, sigchan, events,
                   wvars, drained, saved, deq, fetches, okURLs, dl, fn, pp, job2, app>>

\* resumeCmd: a Job without Events, restored by loadState (fatal when it fails)
resumeCmd ==
    /\ runpc = "start"
    /\ mode = "resume"
    /\ stateFile.exists
    /\ loadState
    /\ runpc' = "run"
    /\ UNCHANGED <<cfgvars, stateFile, discIdx, closed, ctxDone, sigchan, events,
                   wvars, drained, saved, deq, fetches, okURLs, dl, fn, pp, job2, app>>

----------------------------------------------------------------------------
(* Job.Run *)

\* Run up to discoverCommonFiles: the root gets depth 0 and is marked visited
RunStart ==
    /\ runpc = "run"
    /\ depths' = MapSet(depths, NormalizeURL(RootURL), 0)
    /\ visited' = visited \cup {NormalizeURL(RootURL)}
    /\ discIdx' = 1
    /\ runpc' = "discover"
    /\ UNCHANGED <<cfgvars, stateFile, pending, closed, activeWG, stats, ctxDone, sigchan,
                   events, wvars, drained, saved, resumedFrom, hist, dl, fn, pp, job2, app>>

\* one iteration of the loop of discoverCommonFiles
discoverCommonFiles ==
    /\ runpc = "discover"
    /\ LET targetURL == commonPaths[discIdx]
       IN  IF targetURL \notin DOMAIN depths
           THEN /\ depths' = MapSet(depths, targetURL, 0)
                /\ UNCHANGED visited   \* the loop body never touches j.visited
                /\ IF Len(pending) < PendingCap
                   THEN /\ pending' = Append(pending, targetURL)
                        /\ activeWG' = activeWG + 1
                        /\ events' = sendLog(events)
                        /\ enq' = Count(enq, targetURL)
                   ELSE \* default: j.activeWG.Done() undoes the Add(1)
                        UNCHANGED <<pending, activeWG, events, enq>>
           ELSE UNCHANGED <<depths, visited, pending, activeWG, events, enq>>
    /\ discIdx' = discIdx + 1
    /\ runpc' = IF discIdx = Len(commonPaths) THEN "seedAdd" ELSE "discover"
    /\ UNCHANGED <<cfgvars, stateFile, closed, stats, ctxDone, sigchan, wvars, drained,
                   saved, resumedFrom, deq, fetches, okURLs, dl, fn, pp, job2, app>>

\* Run: j.activeWG.Add(1) for the root
RunSeedAdd ==
    /\ runpc = "seedAdd"
    /\ activeWG' = activeWG + 1
    /\ runpc' = "seedSend"
    /\ UNCHANGED <<cfgvars, stateFile, discIdx, pending, closed, visited, depths, stats,
                   ctxDone, sigchan, events, wvars, drained, saved, resumedFrom, hist, dl, fn, pp, job2, app>>

\* Run: j.pending <- normalized (blocks while the channel is full), then the
\* workers are started
RunSeedSend ==
    /\ runpc = "seedSend"
    /\ Len(pending) < PendingCap
    /\ pending' = Append(pending, NormalizeURL(RootURL))
    /\ enq' = Count(enq, NormalizeURL(RootURL))
    /\ wpc' = [w \in Workers |-> IF w <= cfgWorkers THEN "recv" ELSE "unborn"]
    /\ runpc' = "waitActive"
    /\ UNCHANGED <<cfgvars, stateFile, discIdx, closed, visited, depths, activeWG, stats,
                   ctxDone, sigchan, events, wurl, wdepth, wlinks, drained, saved,
                   resumedFrom, deq, fetches, okURLs, dl, fn, pp, job2, app>>

\* a Run that closes the frontier as soon as it is empty
RunClose_WhenEmpty ==
    /\ runpc = "waitActive"
    /\ pending = <<>>
    /\ closed' = TRUE
    /\ runpc' = "waitWorkers"
    /\ UNCHANGED <<cfgvars, stateFile, discIdx, pending, visited, depths, activeWG, stats,
                   ctxDone, sigchan, events, wvars, drained, saved, resumedFrom, hist, dl, fn, pp, job2, app>>

\* Run: j.activeWG.Wait(); close(j.pending)
RunClose ==
    /\ runpc = "waitActive"
    /\ activeWG = 0
    /\ closed' = TRUE
    /\ runpc' = "waitWorkers"
    /\ UNCHANGED <<cfgvars, stateFile, discIdx, pending, visited, depths, activeWG, stats,
                   ctxDone, sigchan, events, wvars, drained, saved, resumedFrom, hist, dl, fn, pp, job2, app>>

\* Run: j.wg.Wait(), then the deferred function up to j.cancel()
RunCancel ==
    LET
        WorkersExited == \A w \in 1..cfgWorkers : wpc[w] = "exited"
    IN
        /\ runpc = "waitWorkers"
        /\ WorkersExited
        /\ events' = sendLog(events)
        /\ ctxDone' = TRUE
        /\ runpc' = "finalEvent"
        /\ UNCHANGED <<cfgvars, stateFile, discIdx, pending, closed, visited, depths, activeWG,
                       stats, sigchan, wvars, drained, saved, resumedFrom, hist, dl, fn, pp, job2, app>>

\* deferred function: j.Events <- "Download completed" (a blocking send)
RunFinalEvent ==
    /\ runpc = "finalEvent"
    /\ mode # "resume" => events < EventsCap
    /\ events' = IF mode = "resume" THEN events ELSE events + 1
    /\ drained' = <<>>
    /\ runpc' = "saveState"
    /\ UNCHANGED <<cfgvars, stateFile, discIdx, pending, closed, visited, depths, activeWG,
                   stats, ctxDone, sigchan, wvars, saved, resumedFrom, hist, dl, fn, pp, job2, app>>

\* a receive from j.pending can proceed: a buffered value, or the zero value
\* of a closed channel
CanReceive(buf, isClosed) == Len(buf) > 0 \/ isClosed

\* saveState: one pass of "for { select { case url := <-j.pending ... default ... } }".
\* While a receive can proceed the select takes it; the default branch recreates
\* the channel, refills it, writes the file and returns, and Run returns too.
saveState ==
    /\ runpc = "saveState"
    /\ IF CanReceive(pending, closed)
       THEN /\ drained' = IF Len(drained) >= SpinCap THEN drained
                          ELSE Append(drained, IF Len(pending) > 0 THEN Head(pending) ELSE "")
            /\ pending' = IF Len(pending) > 0 THEN Tail(pending) ELSE pending
            /\ UNCHANGED <<closed, stateFile, saved, runpc>>
       ELSE /\ pending' = drained
            /\ closed' = FALSE
            /\ stateFile' = [exists |-> TRUE, PendingURLs |-> drained,
                              DepthMap |-> depths, Stats |-> stats]
            /\ saved' = TRUE
            /\ runpc' = "returned"
            /\ UNCHANGED drained
    /\ UNCHANGED <<cfgvars, discIdx, visited, depths, activeWG, stats, ctxDone, sigchan,
                   events, wvars, resumedFrom, hist, dl, fn, pp, job2, app>>

----------------------------------------------------------------------------
(* Job.worker, Job.processURL, Job.parseAndQueueLinks *)

\* worker: "for urlStr := range j.pending": take the next URL, or leave the
\* loop (and the goroutine, j.wg.Done()) when the channel is closed and empty
workerRecv(w) ==
    /\ wpc[w] = "recv"
    /\ CanReceive(pending, closed)
    /\ IF Len(pending) > 0
       THEN /\ wurl' = [wurl EXCEPT ![w] = Head(pending)]
            /\ pending' = Tail(pending)
            /\ deq' = Count(deq, Head(pending))
            /\ wpc' = [wpc EXCEPT ![w] = "process"]
       ELSE /\ wpc' = [wpc EXCEPT ![w] = "exited"]
            /\ UNCHANGED <<wurl, pending, deq>>
    /\ UNCHANGED <<cfgvars, stateFile, runpc, discIdx, closed, visited, depths, activeWG,
                   stats, ctxDone, sigchan, events, wdepth, wlinks, drained, saved,
                   resumedFrom, enq, fetches, okURLs, dl, fn, pp, job2, app>>

\* processURL up to the depth check
processURL(w) ==
    /\ wpc[w] = "process"
    /\ LET depth == GetDepth(depths, wurl[w])
       IN  /\ wdepth' = [wdepth EXCEPT ![w] = depth]
           /\ events' = sendLog(events)
           /\ IF DepthExceeded(depth, cfgMaxDepth)
              THEN /\ stats' = [stats EXCEPT !.Skipped = @ + 1]
                   /\ wpc' = [wpc EXCEPT ![w] = "done"]
              ELSE /\ wpc' = [wpc EXCEPT ![w] = "download"]
                   /\ UNCHANGED stats
    /\ UNCHANGED <<cfgvars, stateFile, runpc, discIdx, pending, closed, visited, depths,
                   activeWG, ctxDone, sigchan, wurl, wlinks, drained, saved, resumedFrom,
                   hist, dl, fn, pp, job2, app>>

\* a failure branch that does not count the failed URL
CountFailed_Never(st) == st

\* a failure branch that counts the failed URL twice
CountFailed_Twice(st) == [st EXCEPT !.Failed = @ + 2]

\* processURL's two failure branches (download error, save error):
\* atomic.AddInt64(&j.stats.Failed, 1); return
CountFailed(st) == [st EXCEPT !.Failed = @ + 1]

\* processURL from Downloader.Download to the call of parseAndQueueLinks:
\* the download, the handlers, SaveFileV2 (which may fail), the counters
processDownload(w) ==
    /\ wpc[w] = "download"
    /\ fetches' = Count(fetches, wurl[w])
    /\ events' = sendLog(events)
    /\ \E outcome \in DownloadOutcomes(wurl[w], ctxDone), saveOK \in SaveResults(wurl[w]) :
          IF outcome = "ok" /\ saveOK
          THEN /\ stats' = [stats EXCEPT !.TotalFiles = @ + 1]
               /\ okURLs' = okURLs \cup {wurl[w]}
               /\ IF MayDescend(wdepth[w], cfgMaxDepth) /\ Links(wurl[w]) # <<>>
                  THEN /\ wlinks' = [wlinks EXCEPT ![w] = Links(wurl[w])]
                       /\ wpc' = [wpc EXCEPT ![w] = "links"]
                  ELSE /\ wpc' = [wpc EXCEPT ![w] = "done"]
                       /\ UNCHANGED wlinks
          ELSE /\ stats' = CountFailed(stats)
               /\ wpc' = [wpc EXCEPT ![w] = "done"]
               /\ UNCHANGED <<wlinks, okURLs>>
    /\ UNCHANGED <<cfgvars, stateFile, runpc, discIdx, pending, closed, visited, depths,
                   activeWG, ctxDone, sigchan, wurl, wdepth, drained, saved, resumedFrom,
                   enq, deq, dl, fn, pp, job2, app>>

\* where the loop over rawLinks goes after the link at the head of the list
AfterLink(w, rest) == IF rest = <<>> THEN "done" ELSE "links"

\* parseAndQueueLinks: the depth given to a newly accepted link
ChildDepth(depth) == depth + 1

\* parseAndQueueLinks: one link up to the send: normalise, filter, and under
\* j.mu check-and-mark visited, record the depth, j.activeWG.Add(1)
queueLink(w) ==
    /\ wpc[w] = "links"
    /\ LET normalized == NormalizeURL(Head(wlinks[w]))
       IN  IF ShouldDownload(normalized) /\ normalized \notin visited
           THEN /\ visited' = visited \cup {normalized}
                /\ depths' = MapSet(depths, normalized, ChildDepth(wdepth[w]))
                /\ activeWG' = activeWG + 1
                /\ wpc' = [wpc EXCEPT ![w] = "send"]
                /\ UNCHANGED wlinks
           ELSE /\ wlinks' = [wlinks EXCEPT ![w] = Tail(@)]
                /\ wpc' = [wpc EXCEPT ![w] = AfterLink(w, Tail(wlinks[w]))]
                /\ UNCHANGED <<visited, depths, activeWG>>
    /\ UNCHANGED <<cfgvars, stateFile, runpc, discIdx, pending, closed, stats, ctxDone,
                   sigchan, events, wurl, wdepth, drained, saved, resumedFrom, hist, dl, fn, pp, job2, app>>

\* parseAndQueueLinks: the blocking send of an accepted link
sendLink(w) ==
    LET
        \* the cases of "select { case j.pending <- normalized: case <-j.ctx.Done(): }"
        \* that can proceed
        SendCases(buf, cancelled) ==
            (IF Len(buf) < PendingCap THEN {"send"} ELSE {})
                \cup (IF cancelled THEN {"cancelled"} ELSE {})
    IN
        /\ wpc[w] = "send"
        /\ \E c \in SendCases(pending, ctxDone) :
              IF c = "send"
              THEN /\ pending' = Append(pending, NormalizeURL(Head(wlinks[w])))
                   /\ enq' = Count(enq, NormalizeURL(Head(wlinks[w])))
                   /\ wlinks' = [wlinks EXCEPT ![w] = Tail(@)]
                   /\ wpc' = [wpc EXCEPT ![w] = AfterLink(w, Tail(wlinks[w]))]
                   /\ UNCHANGED activeWG
              ELSE \* j.activeWG.Done(); return
                   /\ activeWG' = activeWG - 1
                   /\ wlinks' = [wlinks EXCEPT ![w] = <<>>]
                   /\ wpc' = [wpc EXCEPT ![w] = "done"]
                   /\ UNCHANGED <<pending, enq>>
        /\ UNCHANGED <<cfgvars, stateFile, runpc, discIdx, closed, visited, depths, stats,
                       ctxDone, sigchan, events, wurl, wdepth, drained, saved, resumedFrom,
                       deq, fetches, okURLs, dl, fn, pp, job2, app>>

\* worker: j.activeWG.Done() after processURL has returned
workerDone(w) ==
    /\ wpc[w] = "done"
    /\ activeWG' = activeWG - 1
    /\ wpc' = [wpc EXCEPT ![w] = "recv"]
    /\ UNCHANGED <<cfgvars, stateFile, runpc, discIdx, pending, closed, visited, depths,
                   stats, ctxDone, sigchan, events, wurl, wdepth, wlinks, drained, saved,
                   resumedFrom, hist, dl, fn, pp, job2, app>>

----------------------------------------------------------------------------
(* The environment of the job *)

Running == runpc \notin {"start", "run", "returned"}

\* SIGINT / SIGTERM after signal.Notify(j.shutdownChan, ...): the runtime
\* puts the signal into the channel when its buffer (1) has room
Signal ==
    /\ Running
    /\ sigchan = 0
    /\ sigchan' = 1
    /\ UNCHANGED <<cfgvars, stateFile, runpc, discIdx, pending, closed, visited, depths,
                   activeWG, stats, ctxDone, events, wvars, drained, saved, resumedFrom,
                   hist, dl, fn, pp, job2, app>>

\* progressReporter: one tick of the ticker, until the context is cancelled
progressReporter ==
    /\ Running
    /\ ~ctxDone
    /\ events' = sendLog(events)
    /\ UNCHANGED <<cfgvars, stateFile, runpc, discIdx, pending, closed, visited, depths,
                   activeWG, stats, ctxDone, sigchan, wvars, drained, saved, resumedFrom,
                   hist, dl, fn, pp, job2, app>>

\* App.DownloadSite: "for msg := range job.Events" takes one message
consumeEvent ==
    /\ mode = "app"
    /\ events > 0
    /\ events' = events - 1
    /\ UNCHANGED <<cfgvars, stateFile, runpc, discIdx, pending, closed, visited, depths,
                   activeWG, stats, ctxDone, sigchan, wvars, drained, saved, resumedFrom,
                   hist, dl, fn, pp, job2, app>>

----------------------------------------------------------------------------
(* Specifications *)

RunNext ==
    \/ NewJob
    \/ resumeCmd
    \/ RunStart
    \/ discoverCommonFiles
    \/ RunSeedAdd
    \/ RunSeedSend
    \/ RunClose
    \/ RunCancel
    \/ RunFinalEvent
    \/ saveState

WorkerNext(w) ==
    \/ workerRecv(w)
    \/ processURL(w)
    \/ processDownload(w)
    \/ queueLink(w)
    \/ sendLink(w)
    \/ workerDone(w)

\* the job and its consumer while no signal is delivered to the process
Next ==
    \/ RunNext
    \/ \E w \in Workers : WorkerNext(w)
    \/ progressReporter
    \/ consumeEvent

Spec == Init /\ [][Next]_vars

\* goroutines are scheduled fairly; signals and ticks need not happen
Fairness ==
    /\ WF_vars(RunNext)
    /\ \A w \in Workers : WF_vars(WorkerNext(w))
    /\ WF_vars(consumeEvent)

FairSpec == Spec /\ Fairness

\* the same with SIGINT / SIGTERM arriving at any moment of Run
NextSignal ==
    \/ Next
    \/ Signal

SignalSpec == Init /\ [][NextSignal]_vars /\ Fairness

\* Downloader.Download on its own: any retry count, any server behaviour
InitDL ==
    /\ JobInit
    /\ mode = "cli" /\ cfgWorkers = 1 /\ cfgMaxDepth = 0 /\ stateFile = NoFile
    /\ \E retries \in 0..MaxRetries, resps \in [1..MaxRetries -> Responses] :
          dl = DLStart(retries, resps)
    /\ fn = FnIdle
    /\ pp = PPIdle
    /\ job2 = Job2Idle /\ app = AppIdle

SpecDL == InitDL /\ [][DownloadStep]_vars

----------------------------------------------------------------------------
(* DefaultURLFilter *)

\* ShouldDownload: the extensions of static assets
assetExts ==
    {"css", "js", "mjs", "json", "map",
     "png", "jpg", "jpeg", "gif", "svg", "ico", "webp", "avif",
     "woff", "woff2", "ttf", "otf", "eot",
     "mp4", "webm", "mp3", "wav", "pdf"}

\* a page test that forgets .php
isPage_NoPhp(pathLower) ==
    \/ HasSuffix(pathLower, <<".", "html">>)
    \/ ~Contains(Base(pathLower), ".")

\* ShouldDownload: isPage
isPage(pathLower) ==
    \/ HasSuffix(pathLower, <<".", "html">>)
    \/ HasSuffix(pathLower, <<".", "php">>)
    \/ ~Contains(Base(pathLower), ".")

\* DefaultURLFilter.ShouldDownload
FilterShouldDownload(f, u) ==
    LET
        \* ShouldDownload: the loop over assetExts
        HasAssetExt(pathLower) == \E ext \in assetExts : HasSuffix(pathLower, <<".", ext>>)
    IN
        LET parsed == ParseURL(u)
            pathLower == ToLower(parsed.Path)
        IN  IF parsed.Host # f.domain THEN FALSE
            ELSE IF HasAssetExt(pathLower) THEN TRUE
            ELSE IF isPage(pathLower) THEN HasPrefix(parsed.Path, f.basePath)
            ELSE TRUE

\* the directories of a path, each followed by "/"
RECURSIVE JoinDirs(_)
JoinDirs(ds) == IF ds = <<>> THEN <<>> ELSE Head(ds) \o <<"/">> \o JoinDirs(Tail(ds))

\* all sequences over S of length at most n
SeqsUpTo(S, n) == UNION {[1..k -> S] : k \in 0..n}

\* the string of an absolute URL
AbsURL(host, path, query) ==
    <<"https", ":", "/", "/", host>> \o path \o (IF query = <<>> THEN <<>> ELSE <<"?">> \o query)

\* one call j.Filter.ShouldDownload(normalized) of parseAndQueueLinks
InitFilter ==
    LET
        \* root URLs given to NewJob
        FilterRoots ==
            { AbsURL("ex.com", <<>>, <<>>), AbsURL("ex.com", <<"/">>, <<>>),
              AbsURL("ex.com", <<"/", "blog", "/">>, <<>>), AbsURL("ex.com", <<"/", "blog">>, <<>>) }

        \* the normalized links given to the filter
        FilterLinks ==
            LET
                FilterLeaves ==
                    { <<>>, <<"post">>, <<"post", ".", "html">>, <<"POST", ".", "HTML">>, <<"x", ".", "php">>,
                      <<"app", ".", "js">>, <<"readme", ".", "txt">>, <<"page", ".", "htm">> }

                \* directory names and last segments of the links given to the filter
                FilterDirs == { <<"blog">>, <<"about">>, <<"v1", ".", "2">> }
            IN
                { AbsURL(host, <<"/">> \o JoinDirs(ds) \o leaf, query) :
                    host \in {"ex.com", "other.com"}, ds \in SeqsUpTo(FilterDirs, MaxDirs),
                    leaf \in FilterLeaves, query \in {<<>>, <<"p=1">>} }
    IN
        /\ JobAtRest
        /\ dl = DLIdle
        /\ pp = PPIdle
        /\ job2 = Job2Idle /\ app = AppIdle
        /\ \E root \in FilterRoots, u \in FilterLinks :
              fn = [op |-> "ShouldDownload", root |-> root, u |-> u, done |-> FALSE, result |-> FALSE]

FilterStep ==
    LET
        \* NewJob: the filter of a job with the given root URL
        DefaultURLFilter(root) == [domain |-> ParseURL(root).Host, basePath |-> ParseURL(root).Path]
    IN
        /\ fn.op = "ShouldDownload"
        /\ ~fn.done
        /\ fn' = [fn EXCEPT !.done = TRUE,
                            !.result = FilterShouldDownload(DefaultURLFilter(fn.root), fn.u)]
        /\ UNCHANGED <<jobvars, dl, pp, job2, app>>

SpecFilter == InitFilter /\ [][FilterStep]_vars

----------------------------------------------------------------------------
(* PostProcessor *)

\* filepath.Ext: the suffix of the last element that starts at its last dot
Ext(p) ==
    LET b == SubSeq(p, LastIndex(p, "/") + 1, Len(p))
    IN  IF Contains(b, ".") THEN SubSeq(b, LastIndex(b, "."), Len(b)) ELSE <<>>

\* PostProcessorConfig.InputDir
InputDir == <<"in">>

\* the files an input directory may hold, in the order filepath.Walk visits them
InputFiles ==
    << <<"in", "/", "logo", ".", "png">>, <<"in", "/", "notes", ".", "txt">>,
       <<"in", "/", "page", ".", "html">>, <<"in", "/", "page", ".", "php">>,
       <<"in", "/", "style", ".", "css">> >>

\* collectFiles: the switch on the extension
shouldProcess(ext) ==
    ext \in { <<".", e>> : e \in {"html", "htm", "xhtml", "php", "css", "scss", "less", "js"} }

PPWorkers == 1..MaxPPWorkers

\* NewPostProcessor and the state of the file system before Run
InitPP ==
    LET
        \* the input directories of the model: up to MaxFiles of InputFiles
        PPInputs == { F \in SUBSET Range(InputFiles) : Cardinality(F) \in 1..MaxFiles }
        \* processFile: outputPath
        outputPath(config, filePath) ==
            LET out == IF config.OutputDir # config.InputDir
                       THEN Join(config.OutputDir, Rel(config.InputDir, filePath))
                       ELSE filePath
                shouldConvert == ToLower(Ext(filePath)) = <<".", "php">> /\ config.ConvertPhp
            IN  IF shouldConvert THEN TrimSuffix(out, <<".", "php">>) \o <<".", "html">> ELSE out
    IN
        /\ JobAtRest
        /\ dl = DLIdle
        /\ fn = FnIdle
        /\ job2 = Job2Idle /\ app = AppIdle
        /\ \E F \in PPInputs, outDir \in {<<"in">>, <<"out">>}, conv \in BOOLEAN, n \in PPWorkers :
              pp = [phase |-> "start",
                    config |-> [InputDir |-> InputDir, OutputDir |-> outDir,
                                ConvertPhp |-> conv, Workers |-> n],
                    files |-> F,
                    outputPath |-> [f \in F |->
                        outputPath([InputDir |-> InputDir, OutputDir |-> outDir,
                                    ConvertPhp |-> conv], f)],
                    disk |-> [f \in F |-> [from |-> f, rewritten |-> FALSE]],
                    walk |-> SelectSeq(InputFiles, LAMBDA f : f \in F),
                    fileQueue |-> <<>>,
                    closed |-> FALSE,
                    processedFiles |-> {},
                    stats |-> [TotalFiles |-> 0, Processed |-> 0],
                    wpc |-> [w \in PPWorkers |-> "unborn"],
                    wfile |-> [w \in PPWorkers |-> <<>>],
                    wout |-> [w \in PPWorkers |-> <<>>],
                    wmodified |-> [w \in PPWorkers |-> FALSE]]

\* PostProcessor.Run: go p.collectFiles() and the workers
PPRun ==
    /\ pp.phase = "start"
    /\ pp' = [pp EXCEPT !.phase = "wait",
                        !.wpc = [w \in PPWorkers |->
                                    IF w <= pp.config.Workers THEN "recv" ELSE "unborn"]]
    /\ UNCHANGED <<jobvars, dl, fn, job2, app>>

\* collectFiles counting every file of the walk, queued or not
collectFiles_CountAll ==
    /\ pp.phase = "wait"
    /\ ~pp.closed
    /\ IF pp.walk = <<>>
       THEN pp' = [pp EXCEPT !.closed = TRUE]
       ELSE pp' = [pp EXCEPT !.walk = Tail(@),
                             !.stats.TotalFiles = @ + 1,
                             !.fileQueue = IF shouldProcess(ToLower(Ext(Head(pp.walk))))
                                           THEN Append(@, Head(pp.walk)) ELSE @]
    /\ UNCHANGED <<jobvars, dl, fn, job2, app>>

\* collectFiles: one call of the Walk function, or close(p.fileQueue) after
\* the walk (the queue holds 10000 paths, more than the model's directories)
collectFiles ==
    /\ pp.phase = "wait"
    /\ ~pp.closed
    /\ IF pp.walk = <<>>
       THEN pp' = [pp EXCEPT !.closed = TRUE]
       ELSE LET path == Head(pp.walk)
            IN  pp' = [pp EXCEPT !.walk = Tail(@),
                                 !.stats.TotalFiles = IF shouldProcess(ToLower(Ext(path)))
                                                      THEN @ + 1 ELSE @,
                                 !.fileQueue = IF shouldProcess(ToLower(Ext(path)))
                                               THEN Append(@, path) ELSE @]
    /\ UNCHANGED <<jobvars, dl, fn, job2, app>>

\* worker: "for filePath := range p.fileQueue"
PPworkerRecv(w) ==
    /\ pp.phase = "wait"
    /\ pp.wpc[w] = "recv"
    /\ CanReceive(pp.fileQueue, pp.closed)
    /\ IF pp.fileQueue # <<>>
       THEN pp' = [pp EXCEPT !.wfile[w] = Head(pp.fileQueue),
                             !.fileQueue = Tail(@),
                             !.wpc[w] = "process"]
       ELSE pp' = [pp EXCEPT !.wpc[w] = "exited"]
    /\ UNCHANGED <<jobvars, dl, fn, job2, app>>

\* processFile up to the write: stats.Processed is counted, LoadOrStore on the
\* input path, the output path (a function of the configuration and the input
\* path, tabulated in pp.outputPath), and the decision of process*File / copyFile
\* to write
processFile(w) ==
    /\ pp.wpc[w] = "process"
    /\ IF pp.wfile[w] \in pp.processedFiles
       THEN pp' = [pp EXCEPT !.stats.Processed = @ + 1, !.wpc[w] = "recv"]
       ELSE \E modified \in BOOLEAN :
              pp' = [pp EXCEPT !.stats.Processed = @ + 1,
                               !.processedFiles = @ \cup {pp.wfile[w]},
                               !.wout[w] = pp.outputPath[pp.wfile[w]],
                               !.wmodified[w] = modified,
                               !.wpc[w] = IF modified \/ pp.wfile[w] # pp.outputPath[pp.wfile[w]]
                                          THEN "write" ELSE "finish"]
    /\ UNCHANGED <<jobvars, dl, fn, job2, app>>

\* os.WriteFile(outputPath, ...) returns
PPwriteFile(w) ==
    /\ pp.wpc[w] = "write"
    /\ pp' = [pp EXCEPT !.disk = MapSet(@, pp.wout[w],
                                        [from |-> pp.wfile[w], rewritten |-> pp.wmodified[w]]),
                        !.wpc[w] = "finish"]
    /\ UNCHANGED <<jobvars, dl, fn, job2, app>>

\* the end of processFile: the old .php file is removed after an in-place
\* conversion, and the deferred p.processedFiles.Delete(filePath)
PPfinishFile(w) ==
    /\ pp.wpc[w] = "finish"
    /\ LET inPlaceConvert == /\ pp.wout[w] # pp.wfile[w]
                             /\ pp.config.OutputDir = pp.config.InputDir
                             /\ pp.wfile[w] \in DOMAIN pp.disk
           keep == DOMAIN pp.disk \ {pp.wfile[w]}
       IN  pp' = [pp EXCEPT !.disk = IF inPlaceConvert THEN [f \in keep |-> pp.disk[f]] ELSE @,
                            !.processedFiles = @ \ {pp.wfile[w]},
                            !.wpc[w] = "recv"]
    /\ UNCHANGED <<jobvars, dl, fn, job2, app>>

\* PostProcessor.Run: p.wg.Wait() returns, Run returns
PPRunReturn ==
    /\ pp.phase = "wait"
    /\ \A w \in 1..pp.config.Workers : pp.wpc[w] = "exited"
    /\ pp' = [pp EXCEPT !.phase = "returned"]
    /\ UNCHANGED <<jobvars, dl, fn, job2, app>>

PPworker(w) == PPworkerRecv(w) \/ processFile(w) \/ PPwriteFile(w) \/ PPfinishFile(w)

NextPP ==
    \/ PPRun
    \/ collectFiles
    \/ \E w \in PPWorkers : PPworker(w)
    \/ PPRunReturn

SpecPP == InitPP /\ [][NextPP]_vars

\* Run, collectFiles and every worker are goroutines that get to run
FairSpecPP ==
    /\ SpecPP
    /\ WF_vars(PPRun \/ PPRunReturn)
    /\ WF_vars(collectFiles)
    /\ \A w \in PPWorkers : WF_vars(PPworker(w))

----------------------------------------------------------------------------
(* NormalizeURL on URL strings *)

\* NormalizeURL: `if path == "" { path = "/" }`
SlashIfEmpty(path) == IF path = <<>> THEN <<"/">> ELSE path

\* NormalizeURL(u) for a u that parses
NormalizeURLString(u) ==
    LET
        \* NormalizeURL: the path without its index.html / index.htm suffix
        NormalizePath(path) ==
            LET lower == ToLower(path)
                indexHtml == <<"index", ".", "html">>
                indexHtm == <<"index", ".", "htm">>
            IN  IF HasSuffix(lower, <<"/">> \o indexHtml) \/ HasSuffix(lower, <<"/">> \o indexHtm)
                THEN SlashIfEmpty(TrimSuffix(TrimSuffix(path, <<"/">> \o indexHtml), <<"/">> \o indexHtm))
                ELSE IF HasSuffix(lower, indexHtml) \/ HasSuffix(lower, indexHtm)
                THEN SlashIfEmpty(TrimSuffix(TrimSuffix(path, indexHtml), indexHtm))
                ELSE path
    IN
        LET pu == ParseURL(u)
        IN  URLString([pu EXCEPT !.Fragment = <<>>, !.Path = NormalizePath(SlashIfEmpty(pu.Path))])

\* one raw link, normalised once and normalised again
InitNorm ==
    LET
        \* the raw links given to NormalizeURL: absolute and path-only, with and
        \* without query and fragment
        NormInputs ==
            LET
                \* the paths given to NormalizeURL: with and without the trailing slash
                NormPaths ==
                    LET
                        \* the segments of the paths given to NormalizeURL
                        NormSegs ==
                            { <<"blog">>, <<"index", ".", "html">>, <<"index", ".", "htm">>,
                              <<"INDEX", ".", "HTML">>, <<"my", "index", ".", "html">> }
                    IN
                        LET withSlash(ds) == <<"/">> \o JoinDirs(ds)
                        IN  {withSlash(ds) : ds \in SeqsUpTo(NormSegs, MaxDirs)}
                            \cup {SubSeq(withSlash(ds), 1, Len(withSlash(ds)) - 1) : ds \in SeqsUpTo(NormSegs, MaxDirs)}
            IN
                { prefix \o path \o query \o frag :
                    prefix \in {<<"https", ":", "/", "/", "ex.com">>, <<>>},
                    path \in NormPaths,
                    query \in {<<>>, <<"?">>, <<"?", "p=1">>},
                    frag \in {<<>>, <<"#", "top">>} }
    IN
        /\ JobAtRest
        /\ dl = DLIdle
        /\ pp = PPIdle
        /\ job2 = Job2Idle /\ app = AppIdle
        /\ \E u \in NormInputs :
              fn = [op |-> "NormalizeURL", u |-> u, done |-> FALSE, once |-> <<>>, twice |-> <<>>]

NormStep ==
    /\ fn.op = "NormalizeURL"
    /\ ~fn.done
    /\ fn' = [fn EXCEPT !.done = TRUE,
                        !.once = NormalizeURLString(fn.u),
                        !.twice = NormalizeURLString(NormalizeURLString(fn.u))]
    /\ UNCHANGED <<jobvars, dl, pp, job2, app>>

SpecNorm == InitNorm /\ [][NormStep]_vars

----------------------------------------------------------------------------
(* The in-crawl link rewriter and the path mapper *)

IndexHTML == <<"index", ".", "html">>

\* getDiskPath: the path of a URL's file below <output>/<host>/, as SaveFileV2
\* and calculateRelativePath compute it
getDiskPath(u) ==
    IF u.Path = <<>> \/ u.Path = <<"/">> THEN IndexHTML
    ELSE IF Clean(u.Path) = <<".">> THEN IndexHTML
    ELSE LET p == TrimPrefix(Clean(u.Path), <<"/">>)
             lastSegment == Base(p)
         IN  IF HasSuffix(u.Path, <<"/">>) \/ ~Contains(lastSegment, ".")
             THEN IF HasSuffix(ToLower(p), <<".", "php">>)
                  THEN TrimSuffix(p, <<".", "php">>) \o <<".", "html">>
                  ELSE Join(p, IndexHTML)
             ELSE p

\* SaveFileV2: relDiskPath, the file written below <output>/<host>/
SaveFileV2(urlStr) == getDiskPath(ParseURL(urlStr))

\* calculateRelativePath
calculateRelativePath(sourceURL, targetURL) ==
    LET src == ParseURL(sourceURL)
        t == ParseURL(targetURL)
    IN  IF src.Host # t.Host THEN targetURL
        ELSE Rel(Dir(getDiskPath(src)), getDiskPath(t))

\* a rewriter that takes no link for external
IsExternal_Never(parsed, baseParsed) == FALSE

\* RewriteLink: the link has a host and it is not the host of the page
IsExternal(parsed, baseParsed) == parsed.Host # <<>> /\ parsed.Host # baseParsed.Host

\* RewriteLink: "#", "javascript:", "mailto:", "tel:", "data:"
IsSpecialLink(originalURL) ==
    \/ HasPrefix(originalURL, <<"#">>)
    \/ \E scheme \in {"javascript", "mailto", "tel", "data"} : HasPrefix(originalURL, <<scheme, ":">>)

\* strings.HasPrefix(originalURL, "http")
HasHTTPPrefix(originalURL) == originalURL # <<>> /\ originalURL[1] \in {"http", "https"}

\* RewriteLink: targetURL, the link made absolute
TargetURL(originalURL, parsed, baseParsed) ==
    IF ~HasHTTPPrefix(originalURL)
    THEN URLString(ResolveReference(baseParsed, parsed))
    ELSE originalURL

\* a rewriter that rebuilds the link from the relative path alone
RelativeLink_NoQuery(parsed, relPath) == IF relPath = <<>> THEN <<".", "/">> ELSE relPath

\* RewriteLink: the link rebuilt around the relative path, "./" for the empty
\* path, without scheme and host and with the query and fragment it had
RelativeLink(parsed, relPath) ==
    URLString([parsed EXCEPT !.Path = IF relPath = <<>> THEN <<".", "/">> ELSE relPath,
                             !.Scheme = <<>>,
                             !.Host = <<>>])

\* RewriteLink after both URLs have been parsed
RewriteParsed(originalURL, baseURL, parsed, baseParsed) ==
    IF IsExternal(parsed, baseParsed) THEN originalURL
    ELSE IF IsSpecialLink(originalURL) THEN originalURL
    ELSE RelativeLink(parsed,
            TrimSuffix(calculateRelativePath(baseURL, TargetURL(originalURL, parsed, baseParsed)),
                       IndexHTML))

\* DirectoryIndexStrategy.RewriteLink
RewriteLink(originalURL, baseURL) ==
    RewriteParsed(originalURL, baseURL, ParseURL(originalURL), ParseURL(baseURL))

\* StrategyAnalyzer.Analyze(urlStr, "", nil), as LinkRewriterHandlerV2 calls it
Analyze(urlStr) ==
    LET
        \* StrategyAnalyzer.Analyze: patterns of API endpoints
        apiPatterns ==
            { <<"/", "api", "/">>, <<"/", "ajax", "/">>, <<"/", "rest", "/">>, <<"/", "graphql">>,
              <<"/", "auth", "/">> }

        \* StrategyAnalyzer.Analyze: directory names of static files
        staticPatterns ==
            {"static", "assets", "public", "resources", "css", "js", "images", "img", "fonts",
             "uploads", "media", "downloads"}

        \* StrategyAnalyzer.Analyze: the extensions of resources
        resourceExtensions ==
            {"css", "js", "mjs", "cjs",
             "png", "jpg", "jpeg", "gif", "svg", "ico", "webp",
             "woff", "woff2", "ttf", "eot", "otf",
             "mp4", "webm", "mp3", "wav", "ogg", "avi", "mov",
             "pdf", "doc", "docx", "xls", "xlsx", "ppt", "pptx",
             "zip", "rar", "7z", "tar", "gz",
             "json", "xml", "txt", "csv"}
    IN
        LET path == ParseURL(urlStr).Path
            lowerPath == ToLower(path)
        IN  IF \E ext \in resourceExtensions : HasSuffix(lowerPath, <<".", ext>>)
            THEN "FileOnlyStrategy"
            ELSE IF \E ext \in {"php", "html", "htm", "asp", "aspx", "jsp"} :
                        HasSuffix(lowerPath, <<".", ext>>)
            THEN "DirectoryIndexStrategy"
            ELSE IF \E dir \in staticPatterns : ContainsSub(path, <<"/", dir, "/">>)
            THEN "FileOnlyStrategy"
            ELSE IF /\ ~Contains(path, ".") /\ path # <<"/">> /\ path # <<>>
                    /\ \E pattern \in apiPatterns : ContainsSub(path, pattern)
            THEN "FileOnlyStrategy"
            ELSE "DirectoryIndexStrategy"

\* LinkRewriterHandlerV2.Handle: the new value of one href / src / action
\* attribute of a page saved from meta.URL
HandleAttr(val, metaURL) ==
    LET
        \* LinkRewriterHandlerV2.Handle: the value given to the attribute when
        \* strategy.RewriteLink has returned newURL
        AttrValue(newURL) ==
            IF newURL = val THEN val
            ELSE IF ~ContainsSub(newURL, <<":", "/", "/">>) /\ ~HasPrefix(newURL, <<"/">>)
            THEN IF HasPrefix(newURL, <<".", "/">>) \/ HasPrefix(newURL, <<".", ".", "/">>)
                 THEN newURL
                 ELSE <<".", "/">> \o newURL
            ELSE newURL

        \* strategy.RewriteLink: FileOnlyStrategy returns the link as it is
        StrategyRewriteLink(strategy, originalURL, baseURL) ==
            IF strategy = "FileOnlyStrategy" THEN originalURL ELSE RewriteLink(originalURL, baseURL)
    IN
        IF val = <<>> \/ HasPrefix(val, <<"file", ":", "/", "/">>) THEN val
        ELSE AttrValue(StrategyRewriteLink(Analyze(val), val, metaURL))

\* directory names and last segments of the URLs of the rewriter's inputs
RewriteDirs == { <<"docs">>, <<"assets">> }

PageLeaves == { <<>>, <<"page">>, <<"page", ".", "html">>, IndexHTML }

LinkLeaves ==
    PageLeaves \cup { <<"x", ".", "php">>, <<"my", "index", ".", "html">>, <<"a", ".", "css">> }

\* the page and the links of the spec's example
ExampleBase == AbsURL("ex.com", <<"/", "ru", "/", "chapters", "/", "1", "/">>, <<>>)

\* one link of one page
InitRewrite ==
    LET
        \* the attribute values: absolute same-host links, site-rooted links,
        \* absolute and protocol-relative links to another host
        RewriteLinks ==
            LET
                ExampleLinks ==
                    { <<"/", "ru", "/", "chapters", "/", "2", "/">>,
                      <<"/", "assets", "/", "css", "/", "a", ".", "css">>,
                      AbsURL("other.com", <<"/", "x">>, <<>>) }

                LinkPaths ==
                    { <<"/">> \o JoinDirs(ds) \o leaf : ds \in SeqsUpTo(RewriteDirs, MaxDirs), leaf \in LinkLeaves }
            IN
                { prefix \o path \o query :
                    prefix \in { <<"https", ":", "/", "/", "ex.com">>, <<>>,
                                 <<"https", ":", "/", "/", "other.com">>, <<"/", "/", "other.com">> },
                    path \in LinkPaths,
                    query \in {<<>>, <<"?", "v=1">>, <<"#", "top">>, <<"?", "v=1", "#", "top">>} }
                \cup ExampleLinks

        \* meta.URL of the page
        RewriteBases ==
            LET
                \* the paths of the containing pages and of the link targets
                PagePaths ==
                    { <<"/">> \o JoinDirs(ds) \o leaf : ds \in SeqsUpTo(RewriteDirs, MaxDirs), leaf \in PageLeaves }
            IN
                {AbsURL("ex.com", path, <<>>) : path \in PagePaths} \cup {ExampleBase}
    IN
        /\ JobAtRest
        /\ dl = DLIdle
        /\ pp = PPIdle
        /\ job2 = Job2Idle /\ app = AppIdle
        /\ \E base \in RewriteBases, link \in RewriteLinks :
              fn = [op |-> "RewriteLink", base |-> base, link |-> link, done |-> FALSE,
                    result |-> <<>>, attr |-> <<>>]

RewriteStep ==
    /\ fn.op = "RewriteLink"
    /\ ~fn.done
    /\ fn' = [fn EXCEPT !.done = TRUE,
                        !.result = RewriteLink(fn.link, fn.base),
                        !.attr = HandleAttr(fn.link, fn.base)]
    /\ UNCHANGED <<jobvars, dl, pp, job2, app>>

SpecRewrite == InitRewrite /\ [][RewriteStep]_vars

----------------------------------------------------------------------------
(* The save path of a URL *)

\* DirectoryIndexStrategy.GetSavePath: filepath.Join(saveDir, fileName) of the
\* pair it returns
DirectoryIndexStrategy_GetSavePath(outputDir, urlStr) ==
    LET
        \* DirectoryIndexStrategy.GetSavePath: parts, the path elements below the
        \* host's directory, after the last one has lost its page extension or, when
        \* it is "index", has been dropped
        IndexParts(parts) ==
            LET
                \* the page extensions DirectoryIndexStrategy.GetSavePath strips
                pageExtensions == {"php", "html", "htm", "asp", "aspx", "jsp"}
            IN
                LET lastPart == parts[Len(parts)]
                    newName == TrimSuffix(lastPart, Ext(lastPart))
                    front == SubSeq(parts, 1, Len(parts) - 1)
                IN  IF \E ext \in pageExtensions : HasSuffix(ToLower(lastPart), <<".", ext>>)
                    THEN IF newName = <<>> \/ ToLower(newName) = <<"index">>
                         THEN front
                         ELSE Append(front, newName)
                    ELSE IF ToLower(lastPart) = <<"index">> THEN front
                    ELSE parts
    IN
        LET parsed == ParseURL(urlStr)
            cleanPath == IF TrimPrefix(parsed.Path, <<"/">>) = <<>> THEN <<"index">>
                         ELSE TrimPrefix(parsed.Path, <<"/">>)
            parts == IndexParts(SplitPath(cleanPath))
            basePath == Join(outputDir, parsed.Host)
            saveDir == IF parts # <<>> THEN Join(basePath, JoinSegs(parts)) ELSE basePath
        IN  Join(saveDir, IndexHTML)

\* Config.OutputDir of the examples
SaveRoot == <<"out">>

\* one URL to save
InitSave ==
    LET
        \* the URLs given to SaveFileV2: the URLs of the site with and without a
        \* query, the URL of the spec's example and a URL without host
        SaveURLs ==
            LET
                \* the last segments of the saved URLs
                SaveLeaves == LinkLeaves \cup { <<"x", ".", "php", "/">>, <<"X", ".", "PHP">> }
            IN
                { AbsURL("ex.com", path, query) :
                    path \in { <<"/">> \o JoinDirs(ds) \o leaf :
                                  ds \in SeqsUpTo(RewriteDirs, MaxDirs), leaf \in SaveLeaves }
                             \cup { <<>>, <<"/", "ru", "/", "chapters", "/", "1", ".", "html">> },
                    query \in {<<>>, <<"p=1">>} }
                \cup { <<"/", "docs", "/", "page">> }
    IN
        /\ JobAtRest
        /\ dl = DLIdle
        /\ pp = PPIdle
        /\ job2 = Job2Idle /\ app = AppIdle
        /\ \E u \in SaveURLs :
              fn = [op |-> "SaveFileV2", u |-> u, done |-> FALSE, relDiskPath |-> <<>>,
                    fullPath |-> <<>>, indexPath |-> <<>>]

\* SaveFileV2 on the URL, and the path DirectoryIndexStrategy gives for it
SaveStep ==
    LET
        \* SaveFileV2: fullPath, the file it writes; <<>> when it returns the error
        \* "invalid URL or empty host"
        SaveFileV2_fullPath(outputDir, urlStr) ==
            IF ParseURL(urlStr).Host = <<>> THEN <<>>
            ELSE Join(Join(outputDir, ParseURL(urlStr).Host), getDiskPath(ParseURL(urlStr)))
    IN
        /\ fn.op = "SaveFileV2"
        /\ ~fn.done
        /\ fn' = [fn EXCEPT !.done = TRUE,
                            !.relDiskPath = IF ParseURL(fn.u).Host = <<>> THEN <<>>
                                            ELSE SaveFileV2(fn.u),
                            !.fullPath = SaveFileV2_fullPath(SaveRoot, fn.u),
                            !.indexPath = DirectoryIndexStrategy_GetSavePath(SaveRoot, fn.u)]
        /\ UNCHANGED <<jobvars, dl, pp, job2, app>>

SpecSave == InitSave /\ [][SaveStep]_vars

----------------------------------------------------------------------------
(* Processor.resolveTargetPath of the site processor *)

\* Config.Dir
ProcessorDir == <<"testdata">>

\* Config.OriginalHost
OriginalHost == <<"gopedia.ru">>

\* the directories below Config.Dir
DiskDirs ==
    { <<"testdata">>,
      <<"testdata", "/", "study">>,
      <<"testdata", "/", "study", "/", "beginning">>,
      <<"testdata", "/", "study", "/", "advanced">>,
      <<"testdata", "/", "assets">>,
      <<"testdata", "/", "assets", "/", "css">> }

\* os.Stat(name) returns no error
StatOK(name) ==
    LET
        \* the files below Config.Dir
        DiskFiles ==
            { <<"testdata", "/", "index", ".", "html">>,
              <<"testdata", "/", "about", ".", "html">>,
              <<"testdata", "/", "study", "/", "index", ".", "html">>,
              <<"testdata", "/", "study", "/", "beginning", "/", "index", ".", "html">>,
              <<"testdata", "/", "study", "/", "advanced", "/", "index", ".", "html">> }
    IN
        name \in DiskDirs \cup DiskFiles

\* strings.TrimSpace
RECURSIVE TrimSpace(_)
TrimSpace(s) ==
    IF s # <<>> /\ s[1] = " " THEN TrimSpace(Tail(s))
    ELSE IF s # <<>> /\ s[Len(s)] = " " THEN TrimSpace(SubSeq(s, 1, Len(s) - 1))
    ELSE s

\* url.URL.Fragment, the decoded form of the fragment that url.Parse keeps
\* next to the fragment as written
Unescape(s) ==
    LET
        \* the percent-decoding of one symbol
        UnescapeSym(c) == IF c = "a%20b" THEN "a b" ELSE c
    IN
        IF s = <<>> THEN <<>> ELSE [i \in 1..Len(s) |-> UnescapeSym(s[i])]

\* formatResult
formatResult(u, cleanPath) ==
    cleanPath
    \o (IF u.RawQuery # <<>> THEN <<"?">> \o u.RawQuery ELSE <<>>)
    \o (IF Unescape(u.Fragment) # <<>> THEN <<"#">> \o Unescape(u.Fragment) ELSE <<>>)

\* resolveTargetPath: isMyHost
isMyHost(host) == host = <<>> \/ ContainsSub(host, OriginalHost)

\* resolveTargetPath: relBaseSlash, the directory of the current file below
\* Config.Dir
relBaseSlash(currentFile) == Rel(ProcessorDir, Dir(currentFile))

\* Processor.resolveTargetPath
resolveTargetPath(currentFile, rawURL) ==
    LET
        \* resolveTargetPath after url.Parse
        resolveParsed(orig, trimmedURL, u) ==
            LET
                \* resolveTargetPath: resolvedPath
                resolvedPath(targetPath) ==
                    LET
                        \* resolveTargetPath: errLocal == nil, the target exists in the directory of
                        \* the current file, as it is or with ".html" added
                        errLocalNil(pureName) ==
                            \/ StatOK(Join(Dir(currentFile), pureName))
                            \/ StatOK(Join(Dir(currentFile), pureName) \o <<".", "html">>)
                    IN
                        IF /\ ~HasPrefix(targetPath, <<"/">>) \/ errLocalNil(TrimPrefix(targetPath, <<"/">>))
                           /\ relBaseSlash(currentFile) # <<".">>
                        THEN Join(relBaseSlash(currentFile), TrimPrefix(targetPath, <<"/">>))
                        ELSE targetPath

                \* resolveTargetPath from the normalisation on: the path given to formatResult
                normalizedTarget(cleanPath) ==
                    LET
                        \* resolveTargetPath: finalPath
                        finalPath ==
                            LET
                                \* resolveTargetPath: finalPath before the double index is cut
                                structurePath(pathWithoutExt) ==
                                    LET
                                        \* os.Stat(name) returns no error and fileInfo.IsDir()
                                        StatIsDir(name) == name \in DiskDirs
                                    IN
                                        IF StatIsDir(Join(ProcessorDir, pathWithoutExt)) THEN Join(pathWithoutExt, IndexHTML)
                                        ELSE IF Ext(cleanPath) = <<>>
                                        THEN IF StatOK(Join(ProcessorDir, cleanPath) \o <<".", "html">>)
                                             THEN cleanPath \o <<".", "html">>
                                             ELSE Join(cleanPath, IndexHTML)
                                        ELSE IF Ext(cleanPath) = <<".", "php">> THEN pathWithoutExt \o <<".", "html">>
                                        ELSE cleanPath
                            IN
                                TrimSuffix(structurePath(TrimSuffix(cleanPath, <<".", "html">>)),
                                           IF HasSuffix(structurePath(TrimSuffix(cleanPath, <<".", "html">>)),
                                                        <<"/">> \o IndexHTML \o <<"/">> \o IndexHTML)
                                           THEN <<"/">> \o IndexHTML ELSE <<>>)
                    IN
                        IF HasSuffix(cleanPath, <<"/">> \o IndexHTML) THEN cleanPath
                        ELSE Rel(relBaseSlash(currentFile), TrimPrefix(finalPath, <<"/">>))
            IN
                IF \/ ~isMyHost(u.Host)
                   \/ HasPrefix(trimmedURL, <<"data", ":">>)
                   \/ HasPrefix(trimmedURL, <<"mailto", ":">>)
                   \/ HasPrefix(trimmedURL, <<"#">>)
                THEN orig
                ELSE IF u.Path = <<>> \/ u.Path = <<"/">> THEN formatResult(u, <<"/">> \o IndexHTML)
                ELSE formatResult(u, normalizedTarget(Clean(<<"/">> \o resolvedPath(u.Path))))
    IN
        resolveParsed(rawURL, TrimSpace(rawURL), ParseURL(TrimSpace(rawURL)))

\* one link of one file
InitResolve ==
    LET
        \* the files being processed
        CurrentFiles ==
            { <<"testdata", "/", "index", ".", "html">>,
              <<"testdata", "/", "study", "/", "index", ".", "html">>,
              <<"testdata", "/", "study", "/", "beginning", "/", "index", ".", "html">> }

        \* the links found in the files: site-rooted and absolute links of the
        \* original host, links of other hosts, relative links, an anchor, a mailto
        \* link and a link with white space around it
        RawURLs ==
            LET
                \* the paths of the links
                TargetPaths ==
                    { <<"/">>,
                      <<"/", "study", "/">>,
                      <<"/", "study">>,
                      <<"/", "study", "/", "beginning", "/">>,
                      <<"/", "study", "/", "advanced", "/">>,
                      <<"/", "study", "/", "beginning", "/", "index", ".", "html">>,
                      <<"/", "study", "/", "beginning", "/", "page", ".", "html">>,
                      <<"/", "contacts", ".", "php">>,
                      <<"/", "assets", "/", "css", "/", "style", ".", "css">>,
                      <<"/", "about">>,
                      <<"/", "search">> }
            IN
                { prefix \o path \o suffix :
                    prefix \in { <<>>, <<"https", ":", "/", "/", "gopedia.ru">>,
                                 <<"https", ":", "/", "/", "google.com">>,
                                 <<"https", ":", "/", "/", "my", "gopedia.ru">> },
                    path \in TargetPaths,
                    suffix \in { <<>>, <<"?", "q=test">>, <<"?", "section=1", "#", "anchor">>,
                                 <<"#", "a%20b">> } }
                \cup { <<"beginning", "/">>, <<".", ".", "/", "advanced", "/">>, <<"#", "top">>,
                       <<"mailto", ":", "admin@gopedia.ru">>, <<" ", "/", "study", "/", " ">> }
    IN
        /\ JobAtRest
        /\ dl = DLIdle
        /\ pp = PPIdle
        /\ job2 = Job2Idle /\ app = AppIdle
        /\ \E currentFile \in CurrentFiles, rawURL \in RawURLs :
              fn = [op |-> "resolveTargetPath", currentFile |-> currentFile, rawURL |-> rawURL,
                    done |-> FALSE, result |-> <<>>]

ResolveStep ==
    /\ fn.op = "resolveTargetPath"
    /\ ~fn.done
    /\ fn' = [fn EXCEPT !.done = TRUE,
                        !.result = resolveTargetPath(fn.currentFile, fn.rawURL)]
    /\ UNCHANGED <<jobvars, dl, pp, job2, app>>

SpecResolve == InitResolve /\ [][ResolveStep]_vars

----------------------------------------------------------------------------
(* The second downloader variant: NewJob seeds the frontier, a goroutine of
   Run closes it, parseAndQueueLinks sends without blocking and adds to the
   counter after the send *)

\* ContentHash of the document of a URL: the two pages share one content
ContentHash(u) == IF u \in {PageA, PageB} THEN "page" ELSE u

\* the process is running: no goroutine has panicked
AliveV2 == job2.phase = "run" /\ ~job2.panicked

\* j.mu is held by the worker that stands between its send and its Add
MuHeldV2 == \E s \in Workers : job2.wpc[s] = "add"

\* Run: the goroutines are started (signal handler, progress reporter,
\* workers, the goroutine that closes the frontier); Run waits in j.wg.Wait()
RunV2 ==
    /\ AliveV2
    /\ job2.runpc = "start"
    /\ job2' = [job2 EXCEPT !.runpc = "waitWorkers",
                            !.closer = "start",
                            !.wpc = [w \in Workers |-> IF w <= job2.Workers THEN "recv"
                                                       ELSE "unborn"]]
    /\ UNCHANGED <<jobvars, dl, fn, pp, app>>

\* the closing goroutine calls j.activeWG.Wait(): it returns at once when the
\* counter is zero and waits otherwise
closerWaitV2 ==
    /\ AliveV2
    /\ job2.closer = "start"
    /\ job2' = [job2 EXCEPT !.closer = IF job2.activeWG = 0 THEN "woken" ELSE "waiting"]
    /\ UNCHANGED <<jobvars, dl, fn, pp, app>>

\* the closing goroutine after Wait has returned: close(j.pending)
closerCloseV2 ==
    /\ AliveV2
    /\ job2.closer = "woken"
    /\ job2' = [job2 EXCEPT !.closer = "done", !.closed = TRUE]
    /\ UNCHANGED <<jobvars, dl, fn, pp, app>>

\* SIGINT / SIGTERM: the goroutine of Run receives from j.shutdownChan and
\* calls j.cancel()
shutdownV2 ==
    /\ AliveV2
    /\ job2.runpc = "waitWorkers"
    /\ ~job2.ctxDone
    /\ job2' = [job2 EXCEPT !.ctxDone = TRUE]
    /\ UNCHANGED <<jobvars, dl, fn, pp, app>>

\* Run: j.wg.Wait() returns when every worker has left its loop; j.cancel()
RunCancelV2 ==
    /\ AliveV2
    /\ job2.runpc = "waitWorkers"
    /\ \A w \in 1..job2.Workers : job2.wpc[w] = "exited"
    /\ job2' = [job2 EXCEPT !.runpc = "cancelled", !.ctxDone = TRUE]
    /\ UNCHANGED <<jobvars, dl, fn, pp, app>>

\* worker: "for urlStr := range j.pending"
workerRecvV2(w) ==
    /\ AliveV2
    /\ job2.wpc[w] = "recv"
    /\ CanReceive(job2.pending, job2.closed)
    /\ job2' = IF Len(job2.pending) > 0
               THEN [job2 EXCEPT !.wurl[w] = Head(job2.pending),
                                 !.pending = Tail(job2.pending),
                                 !.wpc[w] = "process"]
               ELSE [job2 EXCEPT !.wpc[w] = "exited"]
    /\ UNCHANGED <<jobvars, dl, fn, pp, app>>

\* processURL up to the depth check
processURLV2(w) ==
    /\ AliveV2
    /\ job2.wpc[w] = "process"
    /\ job2' = IF DepthExceeded(GetDepth(job2.depths, job2.wurl[w]), job2.MaxDepth)
               THEN [job2 EXCEPT !.wdepth[w] = GetDepth(job2.depths, job2.wurl[w]),
                                 !.stats.Skipped = @ + 1,
                                 !.wpc[w] = "done"]
               ELSE [job2 EXCEPT !.wdepth[w] = GetDepth(job2.depths, job2.wurl[w]),
                                 !.wpc[w] = "download"]
    /\ UNCHANGED <<jobvars, dl, fn, pp, app>>

\* processURL: Downloader.Download; a failure is counted and ends processURL
downloadV2(w) ==
    /\ AliveV2
    /\ job2.wpc[w] = "download"
    /\ \E outcome \in DownloadOutcomes(job2.wurl[w], job2.ctxDone) :
          job2' = IF outcome = "ok"
                  THEN [job2 EXCEPT !.wpc[w] = "hash"]
                  ELSE [job2 EXCEPT !.stats.Failed = @ + 1, !.wpc[w] = "done"]
    /\ UNCHANGED <<jobvars, dl, fn, pp, app>>

\* processURL from the duplicate check under j.mu to the call of
\* parseAndQueueLinks: the handlers, SaveFileV2 (which may fail), the counters
saveV2(w) ==
    /\ AliveV2
    /\ job2.wpc[w] = "hash"
    /\ ~MuHeldV2
    /\ \E saveOK \in SaveResults(job2.wurl[w]) :
          job2' = IF ContentHash(job2.wurl[w]) \in job2.hashes
                  THEN [job2 EXCEPT !.stats.Skipped = @ + 1, !.wpc[w] = "done"]
                  ELSE IF ~saveOK
                  THEN [job2 EXCEPT !.hashes = @ \cup {ContentHash(job2.wurl[w])},
                                    !.stats.Failed = @ + 1,
                                    !.wpc[w] = "done"]
                  ELSE IF MayDescend(job2.wdepth[w], job2.MaxDepth) /\ Links(job2.wurl[w]) # <<>>
                  THEN [job2 EXCEPT !.hashes = @ \cup {ContentHash(job2.wurl[w])},
                                    !.stats.TotalFiles = @ + 1,
                                    !.wlinks[w] = Links(job2.wurl[w]),
                                    !.wpc[w] = "links"]
                  ELSE [job2 EXCEPT !.hashes = @ \cup {ContentHash(job2.wurl[w])},
                                    !.stats.TotalFiles = @ + 1,
                                    !.wpc[w] = "done"]
    /\ UNCHANGED <<jobvars, dl, fn, pp, app>>

\* parseAndQueueLinks: one link: normalise, filter (a filtered link is
\* counted as skipped), and under j.mu check-and-mark visited, record the
\* depth and "select { case j.pending <- normalized: ... default: ... }":
\* a send on the closed channel panics, a send with room leaves the worker
\* before its activeWG.Add(1) with j.mu held, a full channel drops the link
queueLinkV2(w) ==
    /\ AliveV2
    /\ job2.wpc[w] = "links"
    /\ LET normalized == NormalizeURL(Head(job2.wlinks[w]))
           rest == Tail(job2.wlinks[w])
       IN  /\ ShouldDownload(normalized) => ~MuHeldV2
           /\ job2' =
                IF ~ShouldDownload(normalized)
                THEN [job2 EXCEPT !.stats.Skipped = @ + 1,
                                  !.wlinks[w] = rest,
                                  !.wpc[w] = AfterLink(w, rest)]
                ELSE IF normalized \in job2.visited
                THEN [job2 EXCEPT !.wlinks[w] = rest, !.wpc[w] = AfterLink(w, rest)]
                ELSE IF job2.closed
                THEN [job2 EXCEPT !.visited = @ \cup {normalized},
                                  !.depths = MapSet(@, normalized, ChildDepth(job2.wdepth[w])),
                                  !.panicked = TRUE]
                ELSE IF Len(job2.pending) < PendingCap
                THEN [job2 EXCEPT !.visited = @ \cup {normalized},
                                  !.depths = MapSet(@, normalized, ChildDepth(job2.wdepth[w])),
                                  !.pending = Append(@, normalized),
                                  !.wpc[w] = "add"]
                ELSE [job2 EXCEPT !.visited = @ \cup {normalized},
                                  !.depths = MapSet(@, normalized, ChildDepth(job2.wdepth[w])),
                                  !.wlinks[w] = rest,
                                  !.wpc[w] = AfterLink(w, rest)]
    /\ UNCHANGED <<jobvars, dl, fn, pp, app>>

\* parseAndQueueLinks: j.activeWG.Add(1) after the send, j.mu.Unlock()
addV2(w) ==
    /\ AliveV2
    /\ job2.wpc[w] = "add"
    /\ job2' = [job2 EXCEPT !.activeWG = @ + 1,
                            !.wlinks[w] = Tail(@),
                            !.wpc[w] = AfterLink(w, Tail(job2.wlinks[w]))]
    /\ UNCHANGED <<jobvars, dl, fn, pp, app>>

\* worker: j.activeWG.Done() after processURL has returned; the counter
\* reaching zero releases the goroutine waiting in Wait, a negative counter
\* panics
workerDoneV2(w) ==
    /\ AliveV2
    /\ job2.wpc[w] = "done"
    /\ job2' = [job2 EXCEPT !.activeWG = @ - 1,
                            !.closer = IF job2.activeWG = 1 /\ @ = "waiting" THEN "woken" ELSE @,
                            !.panicked = job2.activeWG < 1,
                            !.wpc[w] = "recv"]
    /\ UNCHANGED <<jobvars, dl, fn, pp, app>>

\* one URL to crawl, any number of workers and any depth limit
InitV2 ==
    LET
        \* NewJob without a state file: the job with the root URL in its frontier
        NewJobV2(workers, maxDepth) ==
            [phase |-> "run",
             Workers |-> workers,
             MaxDepth |-> maxDepth,
             pending |-> <<NormalizeURL(RootURL)>>,
             closed |-> FALSE,
             visited |-> {NormalizeURL(RootURL)},
             depths |-> MapSet(EmptyMap, NormalizeURL(RootURL), 0),
             hashes |-> {},
             activeWG |-> 1,
             stats |-> NoStats,
             ctxDone |-> FALSE,
             runpc |-> "start",
             closer |-> "unborn",
             wpc |-> [w \in Workers |-> "unborn"],
             wurl |-> [w \in Workers |-> ""],
             wdepth |-> [w \in Workers |-> 0],
             wlinks |-> [w \in Workers |-> <<>>],
             panicked |-> FALSE]
    IN
        /\ JobAtRest
        /\ dl = DLIdle
        /\ fn = FnIdle
        /\ pp = PPIdle
        /\ app = AppIdle
        /\ \E workers \in 1..MaxWorkers, maxDepth \in 0..DepthLimit :
              job2 = NewJobV2(workers, maxDepth)

WorkerNextV2(w) ==
    \/ workerRecvV2(w)
    \/ processURLV2(w)
    \/ downloadV2(w)
    \/ saveV2(w)
    \/ queueLinkV2(w)
    \/ addV2(w)
    \/ workerDoneV2(w)

NextV2 ==
    \/ RunV2
    \/ closerWaitV2
    \/ closerCloseV2
    \/ shutdownV2
    \/ RunCancelV2
    \/ \E w \in Workers : WorkerNextV2(w)

SpecV2 == InitV2 /\ [][NextV2]_vars

----------------------------------------------------------------------------
(* Properties *)

\* C1: Job.Run terminates: once the outstanding-work counter has reached zero
\* the frontier is closed, the workers exit, saveState writes the snapshot and
\* returns, and Run returns.
C1_RunTerminates ==
    (runpc = "waitActive" /\ activeWG = 0) ~> (saved /\ runpc = "returned")

\* C2: within one job every URL is sent into the frontier at most once and is
\* taken from it by a worker at most once.
C2_EnqueuedOnce == \A u \in URLs : enq[u] <= 1 /\ deq[u] <= 1

\* C3: every URL in the frontier and every key of the depth map is in the
\* visited set.
C3_FrontierAndDepthsVisited ==
    /\ Range(pending) \subseteq visited
    /\ DOMAIN depths \subseteq visited

C5_FetchDepthBounded ==
    \A w \in Workers :
        wpc[w] = "download" =>
            /\ wdepth[w] <= cfgMaxDepth
            /\ GetDepth(depths, wurl[w]) <= cfgMaxDepth

\* C5 witness: a URL at the maximum depth is about to be fetched
C5_Witness ==
    \E w \in Workers :
        wpc[w] = "download" /\ cfgMaxDepth = DepthLimit /\ wdepth[w] = cfgMaxDepth

\* C6: a worker blocked in the send to a full frontier is never stuck for
\* good: some worker of the pool is not itself blocked in such a send, so it
\* can still take a URL from the frontier.
C6_BlockedSendNeverDeadlocks ==
    ~ /\ wpc[1] = "send"
      /\ Len(pending) >= PendingCap
      /\ ~ctxDone
      /\ \A w \in 1..cfgWorkers : wpc[w] = "send"

\* C7: a job resumed from a snapshot never fetches a URL that the snapshot
\* records as already taken from the frontier by the cancelled job.
C7_NoRefetchAfterResume ==
    LET TakenBefore == DOMAIN resumedFrom.DepthMap \ Range(resumedFrom.PendingURLs)
    IN  \A u \in TakenBefore : fetches[u] = 0

\* C8: when the job context is cancelled, every URL that this job accepted
\* (visited and given a depth; for a resumed job, not one its snapshot records
\* as already taken) and has not fetched successfully is still in the frontier
\* or in the slice saveState drains it into, from where it reaches the
\* snapshot's pendingURLs.
C8_UnfetchedStaysPending ==
    LET TakenBefore == DOMAIN resumedFrom.DepthMap \ Range(resumedFrom.PendingURLs)
        Accepted == (visited \cap DOMAIN depths) \ TakenBefore
    IN  ctxDone =>
            \A u \in Accepted \ okURLs : u \in Range(pending) \cup Range(drained)

\* C9: a SIGINT / SIGTERM delivered while Run executes leads to the context
\* being cancelled and the state snapshot being written.
C9_SignalCancelsAndSaves == (sigchan = 1) ~> (ctxDone /\ saved)

\* C10: Download sends at most `retries` requests; only a transport error or
\* a status other than 200 and 404 is followed by another attempt, and then
\* until `retries` attempts have been made, after which Download returns an
\* error; a 404 ends it with an error and a 200 ends it, both at once.
C10_RetryPolicy ==
    LET n == Len(dl.seen)
        Retryable(r) ==
            r.kind = "neterr" \/ (r.kind = "http" /\ r.status \notin {200, 404})
    IN  /\ dl.http <= dl.retries
        /\ n <= dl.retries
        /\ \A i \in 1..(n - 1) : Retryable(dl.seen[i])
        /\ n > 0 /\ Retryable(dl.seen[n]) =>
              IF n < dl.retries
              THEN dl.result = "running" /\ dl.attempt = n + 1
              ELSE dl.result \in {"ErrDownloadFailed", "status"}
        /\ n > 0 /\ dl.seen[n].kind = "http" /\ dl.seen[n].status = 404 =>
              dl.result = "notfound"
        /\ n > 0 /\ dl.seen[n].status = 200 =>
              dl.result \in {"ok", "toolarge", "readerr"}
        /\ dl.result = "ok" => n > 0 /\ dl.seen[n].kind = "http" /\ dl.seen[n].status = 200

\* C10 witness: the last permitted attempt has failed after two retries
C10_Witness ==
    /\ dl.retries = 3
    /\ dl.http = 3
    /\ dl.result = "status"

C12_CompletionNeverWaitsForConsumer ==
    (mode = "cli" /\ runpc = "finalEvent") => ENABLED RunFinalEvent

C14_NoConcurrentWriteOfOneOutput ==
    pp.phase # "none" =>
        \A w1, w2 \in PPWorkers :
            (w1 # w2 /\ pp.wpc[w1] = "write" /\ pp.wpc[w2] = "write") => pp.wout[w1] # pp.wout[w2]

\* C15: when the output directory differs from the input directory, after
\* Run has returned every input file with an extension outside the processed
\* set exists unchanged at the same relative path under the output directory
C15_OtherFilesCopied ==
    (pp.phase = "returned" /\ pp.config.OutputDir # pp.config.InputDir) =>
        \A f \in pp.files :
            ~shouldProcess(ToLower(Ext(f))) =>
                LET dest == Join(pp.config.OutputDir, Rel(pp.config.InputDir, f))
                IN  /\ dest \in DOMAIN pp.disk
                    /\ pp.disk[dest] = [from |-> f, rewritten |-> FALSE]

\* C16: NormalizeURL is idempotent: for every URL that parses, normalising the
\* normalised URL changes nothing, also for paths that end in repeated or
\* nested index.html / index.htm suffixes
C16_NormalizeIdempotent ==
    (fn.op = "NormalizeURL" /\ fn.done) => fn.twice = fn.once

\* C17: NormalizeURL drops the fragment, keeps the query, and replaces a
\* trailing index.html or index.htm segment by the directory path ending in
\* "/", so that the link to the index file and the link to its directory
\* have one canonical URL
C17_IndexBecomesDirectory ==
    (fn.op = "NormalizeURL" /\ fn.done) =>
        LET pu == ParseURL(fn.u)
            res == ParseURL(fn.once)
            indexFiles == {<<"index", ".", "html">>, <<"index", ".", "htm">>}
        IN  /\ res.Fragment = <<>>
            /\ res.RawQuery = pu.RawQuery
            /\ \A idx \in indexFiles :
                  HasSuffix(pu.Path, <<"/">> \o idx) =>
                      LET dir == URLString([pu EXCEPT !.Path = TrimSuffix(pu.Path, idx),
                                                      !.Fragment = <<>>])
                      IN  fn.once = dir /\ NormalizeURLString(dir) = fn.once

\* C18: for same-host URLs B (the page) and T (the link target), resolving
\* RewriteLink(T, B) against the directory of B's file on disk gives the path
\* SaveFileV2 writes T to, or the directory that holds T's index.html when
\* the trailing index.html was stripped
C18_RewrittenLinkResolvesToSavedFile ==
    (fn.op = "RewriteLink" /\ fn.done /\ ParseURL(fn.link).Host = ParseURL(fn.base).Host) =>
        LET diskB == SaveFileV2(fn.base)
            diskT == SaveFileV2(fn.link)
            resolved == Join(Dir(diskB), ParseURL(fn.result).Path)
        IN  \/ resolved = diskT
            \/ Base(diskT) = IndexHTML /\ resolved = Dir(diskT)

\* C19: in a page, a site-rooted same-host link, to a page or to an asset,
\* becomes a path relative to the directory of the page's file on disk: in
\* the page of https://ex.com/ru/chapters/1/ the link /ru/chapters/2/ becomes
\* ../2/ and the link /assets/css/a.css becomes ../../../assets/css/a.css
C19_SiteRootedLinkBecomesRelative ==
    (fn.op = "RewriteLink" /\ fn.done /\ HasPrefix(fn.link, <<"/">>)
        /\ ~HasPrefix(fn.link, <<"/", "/">>)) =>
        LET diskB == SaveFileV2(fn.base)
            diskT == SaveFileV2(URLString(ResolveReference(ParseURL(fn.base), ParseURL(fn.link))))
            path == ParseURL(fn.attr).Path
            resolved == Join(Dir(diskB), path)
        IN  /\ ~HasPrefix(path, <<"/">>)
            /\ \/ resolved = diskT
               \/ Base(diskT) = IndexHTML /\ resolved = Dir(diskT)
            /\ (fn.base = ExampleBase /\ fn.link = <<"/", "ru", "/", "chapters", "/", "2", "/">>)
                  => fn.attr = <<".", ".", "/", "2", "/">>
            /\ (fn.base = ExampleBase /\ fn.link = <<"/", "assets", "/", "css", "/", "a", ".", "css">>)
                  => fn.attr = <<".", ".", "/", ".", ".", "/", ".", ".", "/",
                                 "assets", "/", "css", "/", "a", ".", "css">>

\* C20: RewriteLink returns originalURL unchanged whenever the link's host is
\* not empty and differs from the host of the containing page's URL
C20_ExternalLinkUnchanged ==
    (fn.op = "RewriteLink" /\ fn.done) =>
        LET host == ParseURL(fn.link).Host
        IN  (host # <<>> /\ host # ParseURL(fn.base).Host) => fn.result = fn.link

\* the rewriter has been given a protocol-relative link to another host
C20_Witness ==
    /\ fn.op = "RewriteLink" /\ fn.done
    /\ HasPrefix(fn.link, <<"/", "/", "other.com">>)
    /\ fn.result = fn.link

\* C21: for every same-host link that RewriteLink rewrites, the result has
\* exactly the query string and the fragment of originalURL and neither scheme
\* nor host: only the scheme, host and path part change
C21_RewriteKeepsQueryAndFragment ==
    (fn.op = "RewriteLink" /\ fn.done /\ ParseURL(fn.link).Host \in {<<>>, ParseURL(fn.base).Host}
        /\ fn.result # fn.link) =>
        LET parsed == ParseURL(fn.link)
            res == ParseURL(fn.result)
        IN  /\ res.RawQuery = parsed.RawQuery
            /\ res.ForceQuery = parsed.ForceQuery
            /\ res.Fragment = parsed.Fragment
            /\ res.Scheme = <<>>
            /\ res.Host = <<>>

\* an absolute same-host link with a query and a fragment has been rewritten
C21_Witness ==
    /\ fn.op = "RewriteLink" /\ fn.done
    /\ ParseURL(fn.link).Host = ParseURL(fn.base).Host
    /\ ParseURL(fn.link).RawQuery = <<"v=1">>
    /\ ParseURL(fn.link).Fragment = <<"top">>
    /\ fn.result # fn.link

\* C22: save-path round trip: for every canonical URL U (NormalizeURL leaves
\* it as it is), the file SaveFileV2 writes U to, read back as a URL under
\* U's host and normalised, is U again
C22_SavePathRoundTrip ==
    (fn.op = "SaveFileV2" /\ fn.done /\ ParseURL(fn.u).Host # <<>>
        /\ NormalizeURLString(fn.u) = fn.u) =>
        LET pu == ParseURL(fn.u)
            back == pu.Scheme \o <<":", "/", "/">> \o pu.Host \o <<"/">> \o fn.relDiskPath
        IN  NormalizeURLString(back) = fn.u

\* C23: a page URL whose last segment carries an .html extension is saved as
\* a directory index: /<dir>/<name>.html is written to
\* <root>/<host>/<dir>/<name>/index.html, and https://ex.com/ru/chapters/1.html
\* with the output root out to out/ex.com/ru/chapters/1/index.html
C23_HtmlPageSavedAsDirectoryIndex ==
    (fn.op = "SaveFileV2" /\ fn.done /\ ParseURL(fn.u).Host # <<>>) =>
        LET pu == ParseURL(fn.u)
            name == TrimSuffix(Base(pu.Path), <<".", "html">>)
        IN  /\ (HasSuffix(pu.Path, <<".", "html">>) /\ name # <<"index">>) =>
                  fn.fullPath = SaveRoot \o <<"/">> \o pu.Host
                                \o TrimSuffix(pu.Path, <<".", "html">>) \o <<"/">> \o IndexHTML
            /\ fn.u = AbsURL("ex.com", <<"/", "ru", "/", "chapters", "/", "1", ".", "html">>, <<>>) =>
                  fn.fullPath = <<"out", "/", "ex.com", "/", "ru", "/", "chapters", "/", "1", "/",
                                  "index", ".", "html">>

\* C24: the path mapper rewrites a last segment ending in .php to .html: a
\* URL with the path /<dir>/<name>.php is saved at <root>/<host>/<dir>/<name>.html
C24_PhpSavedAsHtml ==
    (fn.op = "SaveFileV2" /\ fn.done /\ ParseURL(fn.u).Host # <<>>) =>
        LET pu == ParseURL(fn.u)
        IN  HasSuffix(pu.Path, <<".", "php">>) =>
                fn.fullPath = SaveRoot \o <<"/">> \o pu.Host
                              \o TrimSuffix(pu.Path, <<".", "php">>) \o <<".", "html">>

\* C25: for every same-host link resolveTargetPath returns a path relative to
\* the directory of the current file that begins with "./" or "../": a link
\* to the current directory gives ./index.html, a link to "/" from a file n
\* directories below the mirror root gives n times "../" and index.html, and
\* a link to a sibling directory gives ../<sibling>/index.html
C25_RelativeToCurrentDirectory ==
    LET u == ParseURL(TrimSpace(fn.rawURL))
        here == relBaseSlash(fn.currentFile)
        n == IF here = <<".">> THEN 0 ELSE Len(SplitPath(here))
        res == ParseURL(fn.result).Path
    IN  (fn.op = "resolveTargetPath" /\ fn.done /\ u.Host \in {<<>>, OriginalHost}
            /\ u.Scheme # <<"mailto">> /\ u.Path # <<>>) =>
            /\ HasPrefix(res, <<".", "/">>) \/ HasPrefix(res, <<".", ".", "/">>)
            /\ u.Path = <<"/">> \o here \o <<"/">> => res = <<".", "/">> \o IndexHTML
            /\ (u.Path = <<"/">> /\ n >= 1) => res = JoinSegs(Ups(n)) \o <<"/">> \o IndexHTML
            /\ (here = <<"study", "/", "beginning">>
                    /\ u.Path = <<"/", "study", "/", "advanced", "/">>) =>
                  res = <<".", ".", "/", "advanced", "/">> \o IndexHTML

\* C26: resolveTargetPath returns a URL whose host is not the original host
\* exactly as given, including its query string
C26_OtherHostUntouched ==
    (fn.op = "resolveTargetPath" /\ fn.done) =>
        LET u == ParseURL(TrimSpace(fn.rawURL))
        IN  (u.Host # <<>> /\ u.Host # OriginalHost) => fn.result = fn.rawURL

\* C27: for every same-host link resolveTargetPath appends the link's
\* original query string and fragment, in that order, to the rewritten path:
\* the result is a path without "?" and "#" followed by "?" and the query as
\* written, when there is one, and "#" and the fragment as written, when
\* there is one
C27_QueryThenFragmentAppended ==
    LET raw == TrimSpace(fn.rawURL)
        u == ParseURL(raw)
        tail == (IF u.RawQuery # <<>> THEN <<"?">> \o u.RawQuery ELSE <<>>)
                \o (IF u.Fragment # <<>> THEN <<"#">> \o u.Fragment ELSE <<>>)
    IN  (fn.op = "resolveTargetPath" /\ fn.done /\ u.Host \in {<<>>, OriginalHost}
            /\ u.Scheme # <<"mailto">> /\ u.Path # <<>>) =>
            /\ HasSuffix(fn.result, tail)
            /\ ~Contains(TrimSuffix(fn.result, tail), "?")
            /\ ~Contains(TrimSuffix(fn.result, tail), "#")

\* C28: the frontier is closed only when no worker is processing a URL and
\* none is blocked in or about to perform an enqueue, so no worker ever sends
\* on a closed frontier, also when the frontier is empty for a moment while
\* workers are still producing links
C28_ClosedOnlyWhenWorkersIdle ==
    closed => \A w \in Workers : wpc[w] \in {"unborn", "recv", "exited"}

\* the frontier is empty and open while a worker is about to enqueue a link
C28_Witness ==
    /\ runpc = "waitActive"
    /\ pending = <<>>
    /\ ~closed
    /\ \E w \in Workers : wpc[w] = "send"

\* C29: in every interleaving of workers the outstanding-work counter never
\* drops below zero, and the unit of a URL is always added before a worker
\* that has dequeued the URL releases it; also in the variant that increments
\* the counter only after a successful non-blocking send into the frontier
C29_UnitAddedBeforeRelease ==
    [][\A w \in Workers :
          (job2.phase = "run" /\ job2.wpc[w] = "done" /\ job2'.wpc[w] # "done") =>
              /\ job2'.activeWG >= 0
              /\ ~\E s \in Workers :
                     /\ job2.wpc[s] = "add"
                     /\ NormalizeURL(Head(job2.wlinks[s])) = job2.wurl[w]]_vars

\* C30: a cancellation requested while an enqueue is blocked on a full
\* frontier makes the blocked worker abandon the send and undo its increment
\* exactly once; after the cancellation, once no enqueue is blocked any more,
\* the outstanding-work counter equals the number of queued plus in-process
\* URLs, and it eventually reaches zero.
C30_AbandonedEnqueueUndone ==
    /\ [][\A w \in Workers :
             (wpc[w] = "send" /\ wpc'[w] # "send" /\ pending' = pending) =>
                 activeWG' = activeWG - 1]_vars
    /\ [](ctxDone /\ (\A w \in Workers : wpc[w] # "send") =>
             activeWG = Len(pending)
                 + Cardinality({w \in Workers :
                                   wpc[w] \in {"process", "download", "links", "done"}}))
    /\ (sigchan = 1 /\ \E w \in Workers : wpc[w] = "send" /\ Len(pending) >= PendingCap)
           ~> (ctxDone /\ activeWG = 0)

C32_SnapshotKeepsFrontier ==
    [][runpc = "saveState" =>
          /\ runpc' = "saveState" => drained' \o pending' = drained \o pending
          /\ runpc' = "returned" => pending' = drained \o pending
          /\ UNCHANGED <<visited, depths, activeWG>>]_vars

\* C33: a 200 response whose body has exactly maxFileSize bytes ends Download
\* with success; a body of more than maxFileSize bytes ends it with the
\* "file too large" error at once, whatever attempts are left; no attempt
\* reads more than maxFileSize + 1 bytes of a body.
C33_SizeLimit ==
    LET n == Len(dl.seen)
        Body(i) == dl.seen[i].kind = "http" /\ dl.seen[i].status = 200
    IN  /\ \A i \in 1..n : dl.read[i] <= MaxFileSize + 1
        /\ \A i \in 1..n :
              Body(i) /\ dl.seen[i].len = MaxFileSize => i = n /\ dl.result = "ok"
        /\ \A i \in 1..n :
              Body(i) /\ dl.seen[i].len > MaxFileSize => i = n /\ dl.result = "toolarge"

\* C33 witness: a first attempt, with retries left, has been answered by a
\* body longer than the reader's limit
C33_Witness ==
    /\ dl.retries = MaxRetries
    /\ Len(dl.seen) = 1
    /\ dl.seen[1].len = MaxFileSize + 2
    /\ dl.read[1] = MaxFileSize + 1
    /\ dl.result = "toolarge"

\* C34: every URL a worker has taken from the frontier and finished with has
\* moved exactly one of TotalFiles, Failed and Skipped by exactly one: the
\* three counters together exceed what the job started with (zero, or the
\* counters of the snapshot it resumed from) by the number of URLs dequeued,
\* less those a worker is still checking or downloading.
C34_OneCounterPerURL ==
    LET Dequeued == Cardinality(UNION {{<<u, i>> : i \in 1..deq[u]} : u \in URLs})
        Busy == Cardinality({w \in Workers : wpc[w] \in {"process", "download"}})
        Total(st) == st.TotalFiles + st.Failed + st.Skipped
    IN  Total(stats) = Total(resumedFrom.Stats) + Dequeued - Busy

\* C34 witness: a quiescent crawl in which one URL was skipped for its depth
\* and another one failed
C34_Witness ==
    /\ runpc = "waitWorkers"
    /\ \A w \in Workers : wpc[w] \in {"unborn", "exited"}
    /\ stats.Skipped = resumedFrom.Stats.Skipped + 1
    /\ stats.Failed = resumedFrom.Stats.Failed + 1


----------------------------------------------------------------------------
(* App (app.go): DownloadSite, AdaptPaths, StartServer, StopServer *)

\* the goroutines that call a method of the App; call c of StartServer makes server c
Callers == 1..MaxCalls

\* a URL url.Parse rejects (invalid escape)
BadURL == "https://ex.com/%zz"

\* the directory of a downloaded site, as a sequence of symbols
SitePath == <<"downloads", "/", "ex.com">>

\* the App is used for downloads, for adaptations or for serving; the three keep
\* their state apart (keys "dl:..." and paths in activeJobs, a.server under a.mu).
\* DownloadSite gives every job the same Config (Workers: 10, MaxDepth: 15), here
\* one worker and depth 1
InitApp ==
    /\ JobInit
    /\ mode = "app"
    /\ cfgWorkers = 1
    /\ cfgMaxDepth = 1
    /\ dl = DLIdle
    /\ fn = FnIdle
    /\ pp = PPIdle
    /\ job2 = Job2Idle
    /\ app \in { [op |-> "download", activeJobs |-> {},
                  pc |-> [c \in Callers |-> "idle"],
                  arg |-> [c \in Callers |-> ""],
                  ret |-> [c \in Callers |-> ""]],
                 [op |-> "adapt", activeJobs |-> {},
                  pc |-> [c \in Callers |-> "idle"],
                  arg |-> [c \in Callers |-> <<>>],
                  ret |-> [c \in Callers |-> ""],
                  dirs |-> {SitePath}],
                 [op |-> "adapt", activeJobs |-> {},
                  pc |-> [c \in Callers |-> "idle"],
                  arg |-> [c \in Callers |-> <<>>],
                  ret |-> [c \in Callers |-> ""],
                  dirs |-> {}],
                 [op |-> "server", activeJobs |-> {}, server |-> 0, servingPath |-> <<>>,
                  srv |-> [c \in Callers |-> "none"],
                  gpc |-> [c \in Callers |-> "none"],
                  ret |-> [c \in Callers |-> ""],
                  crashed |-> FALSE] }
    /\ app.op # "download" => ~stateFile.exists

\* DownloadSite with a Store in place of LoadOrStore
DownloadSite_NoLock(c, u) ==
    /\ app.op = "download"
    /\ app.pc[c] = "idle"
    /\ app' = IF u = ""
              THEN [app EXCEPT !.arg[c] = u, !.ret[c] = "Error: URL is empty"]
              ELSE [app EXCEPT !.activeJobs = @ \cup {<<"dl:", NormalizeURL(u)>>},
                               !.arg[c] = u, !.ret[c] = "", !.pc[c] = "newjob"]
    /\ UNCHANGED <<jobvars, dl, fn, pp, job2>>

\* DownloadSite up to LoadOrStore("dl:"+normalizedURL): the error of NormalizeURL is
\* dropped, so a URL that does not parse gives the key "dl:"
DownloadSite(c, u) ==
    LET
        normalizedURL == IF u = BadURL THEN "" ELSE NormalizeURL(u)
        busy == <<"dl:", normalizedURL>> \in app.activeJobs
    IN
        /\ app.op = "download"
        /\ app.pc[c] = "idle"
        /\ app' = IF u = ""
                  THEN [app EXCEPT !.arg[c] = u, !.ret[c] = "Error: URL is empty"]
                  ELSE IF busy
                  THEN [app EXCEPT !.arg[c] = u, !.ret[c] = "Download already in progress"]
                  ELSE [app EXCEPT !.activeJobs = @ \cup {<<"dl:", normalizedURL>>},
                                   !.arg[c] = u, !.ret[c] = "", !.pc[c] = "newjob"]
        /\ UNCHANGED <<jobvars, dl, fn, pp, job2>>

\* DownloadSite from NewJob on: NewJob fails when url.Parse does; otherwise the two
\* goroutines are started (the consumer of job.Events, and the one that calls
\* job.Run) and the call returns
DownloadNewJob(c) ==
    /\ app.op = "download"
    /\ app.pc[c] = "newjob"
    /\ app' = IF app.arg[c] = BadURL
              THEN [app EXCEPT !.pc[c] = "failed"]
              ELSE [app EXCEPT !.pc[c] = "running", !.ret[c] = "Download started"]
    /\ UNCHANGED <<jobvars, dl, fn, pp, job2>>

\* a.activeJobs.Delete("dl:"+normalizedURL): after NewJob has failed, and deferred
\* in the goroutine that calls job.Run, where it runs once Run has returned
activeJobsDelete(c) ==
    LET
        normalizedURL == IF app.arg[c] = BadURL THEN "" ELSE NormalizeURL(app.arg[c])
    IN
        /\ app.op = "download"
        /\ app.pc[c] = "failed" \/ (app.pc[c] = "running" /\ runpc = "returned")
        /\ app' = [app EXCEPT !.activeJobs = @ \ {<<"dl:", normalizedURL>>},
                              !.pc[c] = "idle",
                              !.ret[c] = IF app.pc[c] = "failed"
                                         THEN "Error creating job" ELSE @]
        /\ UNCHANGED <<jobvars, dl, fn, pp, job2>>

\* strings.TrimSuffix(path, "_processed")
TrimProcessed(path) ==
    IF Len(path) > 0 /\ path[Len(path)] = "_processed"
    THEN SubSeq(path, 1, Len(path) - 1)
    ELSE path

\* AdaptPaths up to its return: LoadOrStore on filepath.ToSlash(path), then the
\* goroutine is started
AdaptPaths(c, path) ==
    LET
        \* filepath.ToSlash where the separator is the backslash
        normalized == [i \in DOMAIN path |-> IF path[i] = "\\" THEN "/" ELSE path[i]]
    IN
        /\ app.op = "adapt"
        /\ app.pc[c] = "idle"
        /\ app' = IF normalized \in app.activeJobs
                  THEN [app EXCEPT !.arg[c] = path, !.ret[c] = "Job already in progress"]
                  ELSE [app EXCEPT !.activeJobs = @ \cup {normalized},
                                   !.arg[c] = path, !.ret[c] = "Adaptation started",
                                   !.pc[c] = "started"]
        /\ UNCHANGED <<jobvars, dl, fn, pp, job2>>

\* the goroutine of AdaptPaths up to os.RemoveAll(processedDir); it ends, and the
\* deferred Delete runs, when the source directory does not exist
adaptRemoveAll(c) ==
    LET
        normalized == [i \in DOMAIN app.arg[c] |->
                          IF app.arg[c][i] = "\\" THEN "/" ELSE app.arg[c][i]]
        sourceDir == TrimProcessed(app.arg[c])
        processedDir == sourceDir \o <<"_processed">>
    IN
        /\ app.op = "adapt"
        /\ app.pc[c] = "started"
        /\ app' = IF sourceDir \notin app.dirs
                  THEN [app EXCEPT !.activeJobs = @ \ {normalized}, !.pc[c] = "idle"]
                  ELSE [app EXCEPT !.dirs = @ \ {processedDir}, !.pc[c] = "process"]
        /\ UNCHANGED <<jobvars, dl, fn, pp, job2>>

\* the goroutine of AdaptPaths from p.Process(sourceDir, ...), which writes the
\* processed copy, to its end and the deferred Delete
adaptProcess(c) ==
    LET
        normalized == [i \in DOMAIN app.arg[c] |->
                          IF app.arg[c][i] = "\\" THEN "/" ELSE app.arg[c][i]]
        processedDir == TrimProcessed(app.arg[c]) \o <<"_processed">>
    IN
        /\ app.op = "adapt"
        /\ app.pc[c] = "process"
        /\ app' = [app EXCEPT !.dirs = @ \cup {processedDir},
                              !.activeJobs = @ \ {normalized},
                              !.pc[c] = "idle"]
        /\ UNCHANGED <<jobvars, dl, fn, pp, job2>>

\* stopServerNoLock: the registered server is shut down (Shutdown, or Close after
\* 2 s) and the registration cleared; ListenAndServe of that server returns
\* ErrServerClosed to the goroutine that is serving, and to any later call
stopServerNoLock(a) ==
    IF a.server = 0
    THEN a
    ELSE [a EXCEPT !.server = 0,
                   !.servingPath = <<>>,
                   !.gpc = [g \in Callers |->
                               IF a.gpc[g] = "serving" /\ a.srv[a.server] = "listening"
                               THEN "done" ELSE a.gpc[g]],
                   !.srv[a.server] = "shutdown"]

\* StartServer, all of it under a.mu: a registered server is stopped; "Error" when
\* findFreePort finds no port or the directory does not exist; otherwise server c
\* is registered and the goroutine that will call ListenAndServe is started
StartServer(c, ok) ==
    /\ app.op = "server"
    /\ ~app.crashed
    /\ app.srv[c] = "none"
    /\ app' = IF ok
              THEN [stopServerNoLock(app) EXCEPT !.server = c,
                                                 !.servingPath = SitePath,
                                                 !.srv[c] = "new",
                                                 !.gpc[c] = "spawned",
                                                 !.ret[c] = "http://localhost"]
              ELSE [stopServerNoLock(app) EXCEPT !.srv[c] = "error", !.ret[c] = "Error"]
    /\ UNCHANGED <<jobvars, dl, fn, pp, job2>>

\* the goroutine of StartServer: a.server.ListenAndServe(), where a.server is read
\* without a.mu when the goroutine gets to run.  A nil a.server is a nil
\* dereference that ends the process; a server that was shut down returns
\* ErrServerClosed; otherwise the port is bound (bound is FALSE when the port has
\* been taken since findFreePort released it, and a server that is already
\* listening holds its port) and the server listens, or the call fails
serverListen(g, bound) ==
    /\ app.op = "server"
    /\ ~app.crashed
    /\ app.gpc[g] = "spawned"
    /\ app' = IF app.server = 0
              THEN [app EXCEPT !.crashed = TRUE,
                               !.gpc[g] = "panic",
                               !.srv = [c \in Callers |->
                                           IF @[c] = "listening" THEN "shutdown" ELSE @[c]]]
              ELSE IF app.srv[app.server] = "shutdown"
              THEN [app EXCEPT !.gpc[g] = "done"]
              ELSE IF app.srv[app.server] = "new" /\ bound
              THEN [app EXCEPT !.srv[app.server] = "listening", !.gpc[g] = "serving"]
              ELSE [app EXCEPT !.gpc[g] = "failed"]
    /\ UNCHANGED <<jobvars, dl, fn, pp, job2>>

\* the goroutine of StartServer after ListenAndServe has failed: under a.mu,
\* a.server = nil and a.servingPath = ""
serverFailed(g) ==
    /\ app.op = "server"
    /\ ~app.crashed
    /\ app.gpc[g] = "failed"
    /\ app' = [app EXCEPT !.server = 0, !.servingPath = <<>>, !.gpc[g] = "done"]
    /\ UNCHANGED <<jobvars, dl, fn, pp, job2>>

\* StopServer: stopServerNoLock under a.mu
StopServer(c) ==
    /\ app.op = "server"
    /\ ~app.crashed
    /\ app' = [stopServerNoLock(app) EXCEPT
                  !.ret[c] = IF app.server = 0 THEN "Not running" ELSE "Stopped"]
    /\ UNCHANGED <<jobvars, dl, fn, pp, job2>>

NextApp ==
    \/ \E c \in Callers, path \in {SitePath, SitePath \o <<"_processed">>,
                                  <<"downloads", "\\", "ex.com">>} : AdaptPaths(c, path)
    \/ \E c \in Callers : adaptRemoveAll(c)
    \/ \E c \in Callers : adaptProcess(c)
    \/ \E c \in Callers, ok \in BOOLEAN : StartServer(c, ok)
    \/ \E g \in Callers, bound \in BOOLEAN : serverListen(g, bound)
    \/ \E g \in Callers : serverFailed(g)
    \/ \E c \in Callers : StopServer(c)
    \/ \E c \in Callers, u \in {"", RootURL, RootFrag, BadURL} : DownloadSite(c, u)
    \/ \E c \in Callers : DownloadNewJob(c)
    \/ \E c \in Callers : activeJobsDelete(c)
    \/ NewJob
    \/ RunStart
    \/ discoverCommonFiles
    \/ RunSeedAdd
    \/ RunSeedSend
    \/ RunClose
    \/ RunCancel
    \/ RunFinalEvent
    \/ saveState
    \/ \E w \in Workers : WorkerNext(w)
    \/ progressReporter
    \/ consumeEvent

SpecApp == InitApp /\ [][NextApp]_vars

\* the goroutines of the App and of the job are scheduled fairly; calls of the
\* App's methods need not happen
FairSpecApp ==
    /\ SpecApp
    /\ Fairness
    /\ \A c \in Callers : WF_vars(DownloadNewJob(c) \/ activeJobsDelete(c))

\* C35: two calls of DownloadSite whose URLs normalize to the same string never
\* both hold a job or the lock: a call made while another one's job has not
\* finished has returned "Download already in progress" and created none
C35_OneDownloadPerURL ==
    LET
        \* the call holds the "dl:" entry of its URL: in NewJob, or its job is running
        DownloadActive(c) == app.pc[c] \in {"newjob", "failed", "running"}
    IN
        app.op = "download" =>
            \A c, d \in Callers :
                (c # d /\ DownloadActive(c) /\ DownloadActive(d))
                    => NormalizeURL(app.arg[c]) # NormalizeURL(app.arg[d])

C35_Witness ==
    /\ app.op = "download"
    /\ runpc = "waitActive"
    /\ \E c, d \in Callers :
          /\ app.pc[c] = "running"
          /\ app.arg[c] = RootURL
          /\ app.pc[d] = "idle"
          /\ app.arg[d] = RootFrag
          /\ app.ret[d] = "Download already in progress"

\* C36: the "dl:" entry DownloadSite has stored is eventually removed from
\* activeJobs
C36_DownloadLockReleased ==
    \A u \in {"", RootURL} :
        (app.op = "download" /\ <<"dl:", u>> \in app.activeJobs)
            ~> (<<"dl:", u>> \notin app.activeJobs)


\* C37: two adaptation jobs on the same source directory (started with the site's
\* path and with the path of its _processed sibling) never run RemoveAll and
\* Process at the same time: the later call has returned "Job already in progress"
\* and has not got to Process
C37_OneAdaptationPerSite ==
    app.op = "adapt" =>
        \A c, d \in Callers :
            (c # d /\ app.pc[c] = "process" /\ app.pc[d] = "process")
                => TrimProcessed(app.arg[c]) # TrimProcessed(app.arg[d])

\* C38: at most one server is listening, a listening server is the one a.server
\* refers to and servingPath is not empty, and the failure of ListenAndServe in
\* the goroutine of an earlier StartServer leaves the registration of another
\* server as it is
C38_OneRegisteredServer ==
    /\ [](app.op = "server" =>
             /\ Cardinality({s \in Callers : app.srv[s] = "listening"}) <= 1
             /\ \A s \in Callers :
                   app.srv[s] = "listening" => app.server = s /\ app.servingPath # <<>>)
    /\ [][app.op = "server" =>
             \A g \in Callers :
                 (app.gpc[g] = "failed" /\ app'.gpc[g] = "done" /\ app.server # g)
                     => app'.server = app.server]_vars


====
